---- MODULE Spec2Model ----
(***************************************************************************)
(* Certificate scraping and resumable crawl state of censor-board-cuts:    *)
(* scripts/certificates/scraper.py (fetch with validation and HTML cache), *)
(* scripts/certificates/main.py (scan loop and completed-id set) and       *)
(* scripts/certificates/parse.py (CSV accumulation).                       *)
(***************************************************************************)
EXTENDS Integers, Sequences, FiniteSets, TLC

(***************************************************************************)
(* Bounds of the model.                                                    *)
(***************************************************************************)
MaxSeq == 12        \* largest --max-seq, and the sequence numbers the server knows
MaxValid == 2       \* at most this many sequence numbers have a valid response
MaxFailures == 2    \* largest --max-failures
MaxFetchSeq == 2    \* sequence numbers of the ids fetched one by one
MaxCuts == 2        \* the pages have at most this many modification rows in all

(***************************************************************************)
(* Program constants.                                                      *)
(***************************************************************************)
batch_size == 10
MinHtmlLen == 100

(***************************************************************************)
(* Values.  None is Python's None; a certificate id is kept as its three   *)
(* formatted parts, f"1000{region}0{year_code}{seq:08d}", because the      *)
(* 18-digit number does not fit a machine integer of the checker.  The ids *)
(* are digit strings, on which _sanitize_filename replaces nothing, so the *)
(* cache is keyed by the id.                                               *)
(***************************************************************************)
None == <<>>

CertificateId(region, year, seq) == <<region, year + 900, seq>>

\* int(a) - int(b) for two ids of one region and year: the prefixes cancel
IntDiff(a, b) == a[3] - b[3]

Regions == {1}
Years == {2025}

ScanIds == {CertificateId(r, y, s) : r \in Regions, y \in Years, s \in 1..MaxSeq}
FetchIds == {CertificateId(r, y, s) : r \in Regions, y \in Years, s \in 1..MaxFetchSeq}

(***************************************************************************)
(* A response body or cache file, abstracted to what the code looks at:    *)
(* its length, whether it contains '//OK', whether it contains the 'does   *)
(* not exist' message, and what eval() does with the part after '//OK'.    *)
(***************************************************************************)
TextLens == {0, 50, 99, 100, 150}
Payloads == {"truthy", "falsy", "error"}

Texts ==
  {t \in [len : TextLens, marker : BOOLEAN, dne : BOOLEAN, payload : Payloads \cup {"none"}] :
      /\ (t.marker \/ t.dne) => t.len >= 50
      /\ t.marker <=> (t.payload # "none")}

EmptyText == [len |-> 0, marker |-> FALSE, dne |-> FALSE, payload |-> "none"]

Responses ==
  {[transport |-> "ok", text |-> t] : t \in Texts}
    \cup {[transport |-> x, text |-> EmptyText] : x \in {"http_error", "exception"}}

\* scraper.py is_html_valid
is_html_valid(html_content) ==
  IF html_content.len = 0 \/ html_content.len < MinHtmlLen THEN FALSE
  ELSE IF ~html_content.marker THEN FALSE
  ELSE IF html_content.dne THEN FALSE
  ELSE TRUE

\* a lookup that never finds the cache file
HtmlNeverFound(files, certificate_id) == [ok |-> FALSE, html |-> None]

\* scraper.py html_exists_and_valid: (found, content)
html_exists_and_valid(files, certificate_id) ==
  IF certificate_id \notin DOMAIN files THEN [ok |-> FALSE, html |-> None]
  ELSE IF is_html_valid(files[certificate_id])
       THEN [ok |-> TRUE, html |-> files[certificate_id]]
       ELSE [ok |-> FALSE, html |-> None]

\* open(html_file, 'w') ... f.write(response.text)
WriteFile(files, certificate_id, text) ==
  [f \in DOMAIN files \cup {certificate_id} |->
      IF f = certificate_id THEN text ELSE files[f]]

\* parsed_data = eval(data_parts); if parsed_data: return certificate_id
EvalPayload(certificate_id, text, files, posts) ==
  IF text.payload = "error"
  THEN [kind |-> "raise", result |-> None, files |-> files, posts |-> posts]
  ELSE IF text.payload = "truthy"
  THEN [kind |-> "return", result |-> certificate_id, files |-> files, posts |-> posts]
  ELSE [kind |-> "return", result |-> None, files |-> files, posts |-> posts]

\* a fetch that posts without looking at the cache
FetchBodyAlwaysPosts(certificate_id, files, response) ==
  IF response.transport # "ok"
  THEN [kind |-> "raise", result |-> None, files |-> files, posts |-> 1]
  ELSE IF ~is_html_valid(response.text)
  THEN [kind |-> "return", result |-> None, files |-> files, posts |-> 1]
  ELSE EvalPayload(certificate_id, response.text,
                   WriteFile(files, certificate_id, response.text), 1)

\* a fetch that evaluates the payload before it writes the cache file
FetchBodyParseFirst(certificate_id, files, response) ==
  LET found == html_exists_and_valid(files, certificate_id) IN
  IF ~found.ok
  THEN IF response.transport # "ok"
       THEN [kind |-> "raise", result |-> None, files |-> files, posts |-> 1]
       ELSE IF ~is_html_valid(response.text)
       THEN [kind |-> "return", result |-> None, files |-> files, posts |-> 1]
       ELSE LET out == EvalPayload(certificate_id, response.text, files, 1)
            IN IF out.kind = "raise" THEN out
               ELSE [out EXCEPT !.files = WriteFile(files, certificate_id, response.text)]
  ELSE EvalPayload(certificate_id, found.html, files, 0)

\* a fetch that writes the cache file before it checks the response
FetchBodyWriteFirst(certificate_id, files, response) ==
  LET found == html_exists_and_valid(files, certificate_id) IN
  IF ~found.ok
  THEN IF response.transport # "ok"
       THEN [kind |-> "raise", result |-> None, files |-> files, posts |-> 1]
       ELSE IF ~is_html_valid(response.text)
       THEN [kind |-> "return", result |-> None, posts |-> 1,
             files |-> WriteFile(files, certificate_id, response.text)]
       ELSE EvalPayload(certificate_id, response.text,
                        WriteFile(files, certificate_id, response.text), 1)
  ELSE EvalPayload(certificate_id, found.html, files, 0)

\* the try block of get_certificate_details
FetchBody(certificate_id, files, response) ==
  LET found == html_exists_and_valid(files, certificate_id) IN
  IF ~found.ok
  THEN IF response.transport # "ok"
       THEN [kind |-> "raise", result |-> None, files |-> files, posts |-> 1]
       ELSE IF ~is_html_valid(response.text)
       THEN [kind |-> "return", result |-> None, files |-> files, posts |-> 1]
       ELSE EvalPayload(certificate_id, response.text,
                        WriteFile(files, certificate_id, response.text), 1)
  ELSE EvalPayload(certificate_id, found.html, files, 0)

\* a handler that lets the exception through
CatchNothing(outcome) == outcome

\* except Exception: return None
CatchAll(outcome) ==
  IF outcome.kind = "raise"
  THEN [outcome EXCEPT !.kind = "return", !.result = None]
  ELSE outcome

\* scraper.py get_certificate_details
get_certificate_details(certificate_id, files, response) ==
  CatchAll(FetchBody(certificate_id, files, response))

(***************************************************************************)
(* The server of the scan: every id has one fixed answer.  "valid" is a    *)
(* response that passes is_html_valid and evaluates to data, "unparsable"  *)
(* passes is_html_valid and fails in eval(), "missing" lacks the marker.   *)
(***************************************************************************)
ServerKinds == {"valid", "unparsable", "missing"}

ServerResponse(kind) ==
  [transport |-> "ok",
   text |-> IF kind = "valid"
            THEN [len |-> 150, marker |-> TRUE, dne |-> FALSE, payload |-> "truthy"]
            ELSE IF kind = "unparsable"
            THEN [len |-> 150, marker |-> TRUE, dne |-> FALSE, payload |-> "error"]
            ELSE [len |-> 150, marker |-> FALSE, dne |-> TRUE, payload |-> "none"]]

\* what open(html_file, 'w') and an interrupted f.write can leave behind
TornWrites(text) ==
  {EmptyText, [len |-> 100, marker |-> TRUE, dne |-> FALSE, payload |-> "error"]}

(***************************************************************************)
(* .completed.json: json.dump(list(sorted(completed_ids))).                *)
(***************************************************************************)
IdLess(a, b) ==
  \/ a[1] < b[1]
  \/ a[1] = b[1] /\ a[2] < b[2]
  \/ a[1] = b[1] /\ a[2] = b[2] /\ a[3] < b[3]

RECURSIVE SortedList(_)
SortedList(S) ==
  IF S = {} THEN <<>>
  ELSE LET m == CHOOSE x \in S : \A y \in S : ~IdLess(y, x)
       IN <<m>> \o SortedList(S \ {m})

Range(q) == {q[i] : i \in 1..Len(q)}

AbsentFile == [state |-> "absent", ids |-> <<>>]
CorruptFile == [state |-> "corrupt", ids |-> <<>>]

\* main.py save_completed_ids
save_completed_ids(completed) == [state |-> "ok", ids |-> SortedList(completed)]

\* main.py load_completed_ids: (the set, the file afterwards)
load_completed_ids(file) ==
  IF file.state = "ok" THEN [ids |-> Range(file.ids), file |-> file]
  ELSE IF file.state = "corrupt" THEN [ids |-> {}, file |-> file]
  ELSE [ids |-> {}, file |-> save_completed_ids({})]

\* a batch loop that marks every id it looked at
CheckCertMarksAll(cert_id, files, response) ==
  LET found == html_exists_and_valid(files, cert_id) IN
  IF ~found.ok
  THEN LET out == get_certificate_details(cert_id, files, response)
       IN [valid |-> TRUE, files |-> out.files, posts |-> out.posts,
           result |-> out.result]
  ELSE [valid |-> TRUE, files |-> files, posts |-> 0, result |-> None]

\* main.py process_region_year, lines 96-108, for one cert_id of the batch
CheckCert(cert_id, files, response) ==
  LET found == html_exists_and_valid(files, cert_id) IN
  IF ~found.ok
  THEN LET out == get_certificate_details(cert_id, files, response)
       IN [valid |-> out.result # None, files |-> out.files, posts |-> out.posts,
           result |-> out.result]
  ELSE [valid |-> TRUE, files |-> files, posts |-> 0, result |-> None]

\* a failure streak that is not reset by a batch with valid ids
FailureStreakNoReset(valid, batch, failures, limit) ==
  IF valid # {} THEN [failures |-> failures, stop |-> FALSE]
  ELSE IF IntDiff(batch[Len(batch)], batch[1]) <= batch_size
       THEN [failures |-> failures + 1, stop |-> failures + 1 >= limit]
       ELSE [failures |-> failures, stop |-> FALSE]

\* main.py process_region_year, lines 115-128: (counter, break)
FailureStreak(valid, batch, failures, limit) ==
  IF valid # {} THEN [failures |-> 0, stop |-> FALSE]
  ELSE IF IntDiff(batch[Len(batch)], batch[1]) <= batch_size
       THEN [failures |-> failures + 1, stop |-> failures + 1 >= limit]
       ELSE [failures |-> failures, stop |-> FALSE]

(***************************************************************************)
(* metadata.csv as the csv module sees it: a header and rows of cells, all *)
(* text.  A dict is a function from its keys to its values.  The same      *)
(* widening code is in data-scripts/scrape/scraper.py, lines 409-446.      *)
(***************************************************************************)
base_metadata_fields ==
  <<"id", "certificate_id", "title", "category", "language", "format", "duration",
    "applicant", "certifier", "synopsis", "file_no", "film_name_full",
    "cert_no", "cert_date", "final_duration">>

PyNone == "<None>"       \* the value None in a dict
RestKey == "<restkey>"   \* the key None under which DictReader puts surplus cells

NoCsv == [exists |-> FALSE, header |-> <<>>, rows |-> <<>>]

\* the certificate ids of the files in raw/html: digit strings, which
\* _sanitize_filename and _unsanitize_filename leave as they are
HtmlFiles == {"10001", "10002", "10003"}

\* what parse_certificate_details can return for a file: None, or a dict with
\* certificate_id, title and any of two credits
EmptyDict == [k \in {} |-> ""]
CertificateInfos ==
  {[k \in {"certificate_id", "title"} \cup K |->
       IF k = "certificate_id" THEN c
       ELSE IF k = "title" THEN "t"
       ELSE IF k = "credit_director" THEN "x"
       ELSE "07"] : c \in {"x", "y"}, K \in SUBSET {"credit_director", "credit_producer"}}
ParseOutcomes ==
  {[ok |-> TRUE, info |-> r] : r \in CertificateInfos}
    \cup {[ok |-> FALSE, info |-> EmptyDict]}

\* the order of the keys of a result dict
ResultKeys ==
  <<"certificate_id", "title", "film_name", "credit_director", "credit_producer",
    "film_name_full", "id">>

\* csv.DictReader: one row as a dict; a short row gives None for the missing
\* columns, of two columns of one name the later wins
DictReaderRow(header, cells) ==
  [c \in Range(header) \cup (IF Len(cells) > Len(header) THEN {RestKey} ELSE {}) |->
     IF c \notin Range(header) THEN ""
     ELSE LET i == CHOOSE j \in 1..Len(header) :
                     header[j] = c /\ \A k \in (j + 1)..Len(header) : header[k] # c
          IN IF i <= Len(cells) THEN cells[i] ELSE PyNone]

\* csv.DictWriter.writerow: the cells of a dict, '' for a missing key and for
\* None; a key that is no fieldname raises ValueError
DictWriterRaises(fieldnames, d) == DOMAIN d \ Range(fieldnames) # {}

DictWriterRow(fieldnames, d) ==
  [i \in 1..Len(fieldnames) |->
     IF fieldnames[i] \in DOMAIN d /\ d[fieldnames[i]] # PyNone
     THEN d[fieldnames[i]] ELSE ""]

\* a loop that blanks every column of the row
PatchRowBlanksAll(row, new_fields) ==
  [c \in DOMAIN row \cup Range(new_fields) |-> ""]

\* parse.py lines 381-382: for field in new_fields: row[field] = ''
PatchRow(row, new_fields) ==
  [c \in DOMAIN row \cup Range(new_fields) |->
     IF c \in Range(new_fields) THEN "" ELSE row[c]]

\* parse.py lines 375-391: read the rows, write header, rows and the new
\* record; a ValueError leaves the file as far as it was written
RewriteCsv(file, fieldnames, new_fields, result) ==
  LET existing_data == [i \in 1..Len(file.rows) |->
                           PatchRow(DictReaderRow(file.header, file.rows[i]), new_fields)]
      all == Append(existing_data, result)
      bad == {i \in 1..Len(all) : DictWriterRaises(fieldnames, all[i])}
      n == IF bad = {} THEN Len(all)
           ELSE (CHOOSE i \in bad : \A j \in bad : i <= j) - 1
  IN [file |-> [exists |-> TRUE, header |-> fieldnames,
                rows |-> [i \in 1..n |-> DictWriterRow(fieldnames, all[i])]],
      raised |-> bad # {}]

\* parse.py lines 393-399: append, with the header when the file is new; the
\* line appended to an empty file is its first line, which readers take as the
\* header
AppendCsv(file, fieldnames, result) ==
  IF DictWriterRaises(fieldnames, result)
  THEN [file |-> IF file.exists THEN file
                 ELSE [exists |-> TRUE, header |-> fieldnames, rows |-> <<>>],
        raised |-> TRUE]
  ELSE [file |-> IF ~file.exists
                 THEN [exists |-> TRUE, header |-> fieldnames,
                       rows |-> <<DictWriterRow(fieldnames, result)>>]
                 ELSE IF file.header = <<>>
                 THEN [file EXCEPT !.header = DictWriterRow(fieldnames, result)]
                 ELSE [file EXCEPT !.rows = Append(@, DictWriterRow(fieldnames, result))],
        raised |-> FALSE]

\* parse.py lines 308-310 without the ids of metadata.csv: only
\* .processed.json says what is done
IdsOfProcessedFileOnly(file) == {}

\* parse.py get_already_processed_ids
get_already_processed_ids(file) ==
  IF ~file.exists THEN {}
  ELSE {DictReaderRow(file.header, file.rows[i])["id"] :
           i \in {j \in 1..Len(file.rows) :
                     LET row == DictReaderRow(file.header, file.rows[j])
                     IN "id" \in DOMAIN row /\ row["id"] \notin {"", PyNone}}}

\* parse.py lines 313-323: the header of the file, the base fields when there
\* is no file or no first line
ReadHeader(file) ==
  IF file.exists /\ file.header # <<>> THEN file.header ELSE base_metadata_fields

\* parse.py lines 363-371: the new fields in dict order, and the record with
\* '' for every field it lacks
NewFields(result, fields) ==
  SelectSeq(ResultKeys, LAMBDA k : k \in DOMAIN result /\ k \notin Range(fields))

FillFields(result, fields) ==
  [c \in DOMAIN result \cup Range(fields) |-> IF c \in DOMAIN result THEN result[c] ELSE ""]

(***************************************************************************)
(* pandas: read_csv infers a type per column, so a column of numerals is   *)
(* rewritten in canonical form, as floats when a cell of it is empty.      *)
(***************************************************************************)
Numerals == {"07", "7", "7.0"}

PandasColumn(cells) ==
  LET filled == {i \in 1..Len(cells) : cells[i] # ""} IN
  IF filled = {} \/ \E i \in filled : cells[i] \notin Numerals THEN cells
  ELSE IF Cardinality(filled) < Len(cells) \/ \E i \in filled : cells[i] = "7.0"
       THEN [i \in 1..Len(cells) |-> IF cells[i] = "" THEN "" ELSE "7.0"]
       ELSE [i \in 1..Len(cells) |-> "7"]

read_csv(file) ==
  LET col(j) == PandasColumn([i \in 1..Len(file.rows) |-> file.rows[i][j]])
  IN [i \in 1..Len(file.rows) |-> [j \in 1..Len(file.header) |-> col(j)[i]]]

\* df.drop_duplicates(): the first of equal rows stays
RECURSIVE drop_duplicates(_)
drop_duplicates(rows) ==
  IF rows = <<>> THEN <<>>
  ELSE LET head == drop_duplicates(SubSeq(rows, 1, Len(rows) - 1))
           last == rows[Len(rows)]
       IN IF last \in Range(head) THEN head ELSE Append(head, last)

\* the order of the cells of the sort columns; the empty cell is NaN and last
SortOrder == <<"">> \o [k \in 1..MaxCuts |-> ToString(k)] \o <<"t", "x", "y">>
Rank(v) == CHOOSE i \in 1..Len(SortOrder) : SortOrder[i] = v

ColumnOf(header, c) == CHOOSE j \in 1..Len(header) : header[j] = c

RowBefore(header, sort_fields, a, b) ==
  \E k \in 1..Len(sort_fields) :
     /\ Rank(a[ColumnOf(header, sort_fields[k])]) > Rank(b[ColumnOf(header, sort_fields[k])])
     /\ \A m \in 1..(k - 1) :
          a[ColumnOf(header, sort_fields[m])] = b[ColumnOf(header, sort_fields[m])]

\* df.sort_values(by=sort_fields, ascending=False)
RECURSIVE sort_values(_, _, _)
sort_values(rows, header, sort_fields) ==
  IF rows = <<>> THEN <<>>
  ELSE LET i == CHOOSE j \in 1..Len(rows) :
                   /\ \A k \in 1..Len(rows) : ~RowBefore(header, sort_fields, rows[k], rows[j])
                   /\ \A k \in 1..(j - 1) : RowBefore(header, sort_fields, rows[j], rows[k])
           rest == [k \in 1..(Len(rows) - 1) |-> IF k < i THEN rows[k] ELSE rows[k + 1]]
       IN <<rows[i]>> \o sort_values(rest, header, sort_fields)

\* parse.py sort_and_deduplicate_csv; an exception of pandas is logged and
\* leaves the file as it is
sort_and_deduplicate_csv(file, sort_fields) ==
  IF ~file.exists \/ file.header = <<>> \/ ~(Range(sort_fields) \subseteq Range(file.header))
  THEN file
  ELSE [file EXCEPT !.rows = sort_values(drop_duplicates(read_csv(file)),
                                         file.header, sort_fields)]

NoWrite == [kind |-> "none", before |-> NoCsv, record |-> EmptyDict, new_fields |-> <<>>]

(***************************************************************************)
(* parse.py: a file of raw/html as parse_certificate_details reads it: the *)
(* text, as above, and the certificate_info that extract_main_data, the    *)
(* credits and the endorsement of the evaluated data merge to.             *)
(***************************************************************************)
ParseMinHtmlLen == 100

InfoKeys == {"certificate_id", "title", "film_name", "film_name_full"}
MergedInfos == UNION {[K -> {"", "x"}] : K \in SUBSET InfoKeys}

MissingHtml == [exists |-> FALSE, text |-> EmptyText, merged |-> EmptyDict]

HtmlContents ==
  {MissingHtml}
    \cup UNION {{[exists |-> TRUE, text |-> t, merged |-> m] :
                    m \in IF t.payload = "truthy" THEN MergedInfos ELSE {EmptyDict}} :
                t \in Texts}

\* parse.py is_html_valid
parse_is_html_valid(html_content) ==
  IF html_content.len = 0 \/ html_content.len < ParseMinHtmlLen THEN FALSE
  ELSE IF ~html_content.marker THEN FALSE
  ELSE IF html_content.dne THEN FALSE
  ELSE TRUE

\* dict.get(key) and the truth of a value
Get(d, k) == IF k \in DOMAIN d THEN d[k] ELSE PyNone
Truthy(v) == v \notin {"", PyNone}

NoRecord == [kind |-> "return", ok |-> FALSE, info |-> EmptyDict]
Raised == [kind |-> "raise", ok |-> FALSE, info |-> EmptyDict]

\* a test that asks for the certificate_id alone
ParseDataIdOnly(h) ==
  IF h.text.payload \in {"none", "error"} THEN Raised
  ELSE IF Truthy(Get(h.merged, "certificate_id"))
  THEN [kind |-> "return", ok |-> TRUE, info |-> h.merged]
  ELSE NoRecord

\* parse.py lines 219-243: split at '//OK', eval, merge, and the test of the
\* required fields
ParseData(h) ==
  IF h.text.payload \in {"none", "error"} THEN Raised
  ELSE LET certificate_info == h.merged IN
       IF Truthy(Get(certificate_info, "certificate_id"))
            /\ Truthy(Get(certificate_info, "title"))
       THEN [kind |-> "return", ok |-> TRUE, info |-> certificate_info]
       ELSE IF Truthy(Get(certificate_info, "certificate_id"))
                 /\ Truthy(Get(certificate_info, "film_name"))
       THEN [kind |-> "return", ok |-> TRUE, info |-> certificate_info]
       ELSE IF Truthy(Get(certificate_info, "certificate_id"))
                 /\ Truthy(Get(certificate_info, "film_name_full"))
       THEN [kind |-> "return", ok |-> TRUE, info |-> certificate_info]
       ELSE NoRecord

\* parse.py lines 200-243: the try block
ParseTry(h) ==
  IF ~h.exists THEN NoRecord
  ELSE IF ~parse_is_html_valid(h.text) THEN NoRecord
  ELSE ParseData(h)

\* parse.py lines 245-248: except Exception: return None
ParseCatch(outcome) == IF outcome.kind = "raise" THEN NoRecord ELSE outcome

\* a parser without the checks of the file and without the handler
ParseUnguarded(h) == ParseData(h)

\* parse.py parse_certificate_details
parse_certificate_details(h) == ParseCatch(ParseTry(h))

(***************************************************************************)
(* parse.py parse_modifications_table: the fragment abstracted to whether  *)
(* it has a table and to the tr elements of the first table, each with its *)
(* number of td cells and the text of the first cell.                      *)
(***************************************************************************)
MaxRows == 3             \* at most this many rows after the first
ModificationCells == 5

CutTexts == {"1", "2", "x"}
IsInt(text) == text \in {"1", "2"}
IntOf(text) == IF text = "1" THEN 1 ELSE 2

TableRows == [tds : {ModificationCells - 1, ModificationCells, ModificationCells + 1},
              first : CutTexts]

Fragments ==
  {[table |-> FALSE, rows |-> <<>>]}
    \cup {[table |-> TRUE, rows |-> q] : q \in UNION {[1..n -> TableRows] : n \in 0..(MaxRows + 1)}}

\* rows = table.find_all('tr')[1:]
DataRows(fragment) == IF fragment.rows = <<>> THEN <<>> ELSE Tail(fragment.rows)

\* a loop over all the rows, the first included
ModificationsWithHeader(fragment) ==
  LET five == SelectSeq(fragment.rows, LAMBDA row : row.tds = ModificationCells) IN
  IF ~fragment.table THEN [kind |-> "return", mods |-> <<>>]
  ELSE IF \E i \in 1..Len(five) : ~IsInt(five[i].first)
  THEN [kind |-> "raise", mods |-> <<>>]
  ELSE [kind |-> "return", mods |-> [i \in 1..Len(five) |-> [cut_no |-> IntOf(five[i].first)]]]

\* parse.py parse_modifications_table: a record for every row of five cells;
\* int() of the first cell raises ValueError when it is not a number
parse_modifications_table(fragment) ==
  LET five == SelectSeq(DataRows(fragment), LAMBDA row : row.tds = ModificationCells) IN
  IF ~fragment.table THEN [kind |-> "return", mods |-> <<>>]
  ELSE IF \E i \in 1..Len(five) : ~IsInt(five[i].first)
  THEN [kind |-> "raise", mods |-> <<>>]
  ELSE [kind |-> "return", mods |-> [i \in 1..Len(five) |-> [cut_no |-> IntOf(five[i].first)]]]

(***************************************************************************)
(* parse.py extract_main_data: an element of the main sub-array abstracted *)
(* to what the rules look at.  The same rules are in                       *)
(* data-scripts/scrape/scraper.py, lines 149-195.                          *)
(***************************************************************************)
MainLen == 5             \* the main sub-array is longer than this
ApplicantLen == 20
SynopsisLen == 50
TitleLen == 30

Element(str, suffix, words, len, upper) ==
  [str |-> str, mmss |-> suffix, words |-> words, len |-> len, upper |-> upper]

\* a number; a duration of 60 characters; 'HINDI VIDEO'; 'a long film (x) E.O.';
\* two texts of 60 and 80 characters; a title
Elements ==
  {Element(FALSE, FALSE, {}, 0, FALSE),
   Element(TRUE, TRUE, {}, 60, FALSE),
   Element(TRUE, FALSE, {"category", "language"}, 11, TRUE),
   Element(TRUE, FALSE, {"format", "parens", "certifier"}, 25, FALSE),
   Element(TRUE, FALSE, {}, 60, FALSE),
   Element(TRUE, FALSE, {}, 80, FALSE),
   Element(TRUE, FALSE, {}, 10, TRUE)}

\* the sub-arrays of the least length, with a number in front
MainArrays ==
  {<<Element(FALSE, FALSE, {}, 0, FALSE)>> \o a : a \in [1..MainLen -> Elements]}

NoMainArray == <<>>

RuleFields ==
  {"duration", "category", "language", "format", "applicant", "certifier", "synopsis",
   "title"}

\* a chain that tries the title rule first
FirstRuleTitleFirst(item) ==
  IF item.upper /\ item.len < TitleLen THEN "title"
  ELSE IF item.mmss THEN "duration"
  ELSE IF "category" \in item.words THEN "category"
  ELSE IF "language" \in item.words THEN "language"
  ELSE IF "format" \in item.words THEN "format"
  ELSE IF "parens" \in item.words /\ item.len > ApplicantLen THEN "applicant"
  ELSE IF "certifier" \in item.words THEN "certifier"
  ELSE IF item.len > SynopsisLen THEN "synopsis"
  ELSE "none"

\* parse.py lines 161-177: the if/elif chain for one element
FirstRule(item) ==
  IF ~item.str THEN "none"
  ELSE IF item.mmss THEN "duration"
  ELSE IF "category" \in item.words THEN "category"
  ELSE IF "language" \in item.words THEN "language"
  ELSE IF "format" \in item.words THEN "format"
  ELSE IF "parens" \in item.words /\ item.len > ApplicantLen THEN "applicant"
  ELSE IF "certifier" \in item.words THEN "certifier"
  ELSE IF item.len > SynopsisLen THEN "synopsis"
  ELSE IF item.upper /\ item.len < TitleLen THEN "title"
  ELSE "none"

\* a loop in which the first element of a field stays
FirstIndex(main_data, field) ==
  LET found == {i \in 1..Len(main_data) : FirstRule(main_data[i]) = field}
  IN IF found = {} THEN 0 ELSE CHOOSE i \in found : \A j \in found : i <= j

\* parse.py lines 160-177: required_fields[field] after the loop, the index of
\* the last element the chain gave to the field, 0 for None
LastIndex(main_data, field) ==
  LET found == {i \in 1..Len(main_data) : FirstRule(main_data[i]) = field}
  IN IF found = {} THEN 0 ELSE CHOOSE i \in found : \A j \in found : i >= j

\* parse.py extract_main_data on the main sub-array; index -1 is the last
\* element
extract_main_data(main_data) ==
  IF Len(main_data) <= MainLen THEN [fields |-> EmptyDict, info |-> EmptyDict]
  ELSE LET required_fields ==
             [f \in RuleFields \cup {"certificate_id"} |->
                 IF f = "certificate_id" THEN Len(main_data) ELSE LastIndex(main_data, f)]
           present == {f \in DOMAIN required_fields : required_fields[f] # 0}
       IN [fields |-> required_fields,
           info |-> [f \in present |-> main_data[required_fields[f]]]]

NoApplication == [fn |-> "none", arg |-> <<>>, out |-> <<>>, done |-> FALSE]

(***************************************************************************)
(* parse.py and scraper.py file names: a string is a sequence of           *)
(* characters, and str.replace replaces the occurrences of old it meets    *)
(* from the left, without overlap.                                         *)
(***************************************************************************)
MaxIdLen == 4            \* a certificate id has at most this many characters

IdChars == {"e", "q", "1", "/", "=", "+"}
CertificateIds == UNION {[1..n -> IdChars] : n \in 0..MaxIdLen}

StartsWith(str, old) ==
  Len(str) >= Len(old) /\ SubSeq(str, 1, Len(old)) = old

RECURSIVE replace(_, _, _)
replace(str, old, new) ==
  IF Len(str) < Len(old) THEN str
  ELSE IF StartsWith(str, old)
       THEN new \o replace(SubSeq(str, Len(old) + 1, Len(str)), old, new)
       ELSE <<Head(str)>> \o replace(Tail(str), old, new)

HtmlSuffix == <<".", "h", "t", "m", "l">>
EqEscape == <<"_", "e", "q", "_">>
PlusEscape == <<"_", "p", "l", "u", "s", "_">>

\* parse.py line 41, scraper.py line 83
_sanitize_filename(certificate_id) ==
  replace(replace(replace(certificate_id, <<"/">>, <<"_">>), <<"=">>, EqEscape),
          <<"+">>, PlusEscape)

\* parse.py lines 45-49
_unsanitize_filename(filename) ==
  LET name == replace(filename, HtmlSuffix, <<>>) IN
  replace(replace(replace(name, PlusEscape, <<"+">>), EqEscape, <<"=">>),
          <<"_">>, <<"/">>)

(***************************************************************************)
(* State.                                                                  *)
(***************************************************************************)
VARIABLES
  server,                \* id -> kind of answer (fixed)
  region, year,          \* --region, --year
  max_seq, max_failures, \* --max-seq, --max-failures
  cache,                 \* raw/html: file name -> content
  completedFile,         \* .completed.json
  pc,                    \* position of the process
  completed_ids,         \* process_region_year locals
  consecutive_failures,
  seq,
  current_batch,
  valid_ids,             \* [bound, ids]: unbound before the first batch
  ret,                   \* how process_region_year ended
  remaining,             \* ids of certificates.txt still to fetch
  call,                  \* the last call of get_certificate_details
  calls,                 \* history: checks and fetches of this run
  history,               \* history: number of valid ids of each batch of this run
  loaded,                \* history: completed_ids as loaded by this run
  origin,                \* history: files when the interrupted scan first started
  resumed,               \* history: the scan was killed since then
  atCrash,               \* history: what the last kill left behind
  metadataFile,          \* data/raw/metadata.csv
  processedFile,         \* .processed.json
  ppc,                   \* position of the parser process
  processed_ids,         \* CBFCParser.processed_ids
  metadata_fields,       \* process_all_certificates locals
  files_to_process,
  htmlDir,               \* ids of the files in raw/html the parser finds
  parsed,                \* file -> what parse_certificate_details makes of it
  lastWrite,             \* history: the last write to metadata.csv
  htmlContent,           \* raw/html as the parser reads it: id -> content
  applied,               \* the last application of a function of the parser
  mainp,                 \* main(): its position, arguments and token requests
  progressFile,          \* data/raw/progress.json: last_id, or None without the file
  pipeline,              \* scripts/main.py and the scripts/categories/main.py it runs
  modifications,         \* file -> number of rows of its modifications table
  modificationsFile      \* data/raw/modifications.csv

params == <<server, region, year, max_seq, max_failures>>
locals == <<completed_ids, consecutive_failures, seq, current_batch, valid_ids>>
ghosts == <<calls, history, loaded, origin, resumed, atCrash>>
parser == <<metadataFile, processedFile, ppc, processed_ids, metadata_fields,
            files_to_process, htmlDir, parsed, lastWrite, modifications, modificationsFile>>
vars == <<params, cache, completedFile, pc, locals, ret, remaining, call, ghosts, parser,
          htmlContent, applied, mainp, progressFile, pipeline>>

\* scripts/categories/main.py before it is run
NoCategories == [pc |-> "idle", skip_fetch |-> FALSE, ran |-> <<>>, failed |-> "none",
                 status |-> 0, saved_date |-> FALSE]
\* scripts/main.py before it is run
NoPipeline == [pc |-> "start", skip |-> {}, started |-> <<>>, result |-> FALSE,
               status |-> 0, sub |-> NoCategories]

NoTokens == [returned |-> FALSE, result |-> FALSE, sent |-> <<>>, cookies |-> FALSE,
             headers |-> FALSE]
NoArgs == [parse_only |-> FALSE, skip_parse |-> FALSE, generate_ids |-> FALSE,
           region_year |-> "none", urls |-> FALSE]
NoMain == [pc |-> "start", args |-> NoArgs, net |-> <<>>, disk |-> "ok",
           tokens |-> NoTokens, scraper |-> FALSE, status |-> "running",
           pairs |-> <<>>, called |-> <<>>]

NoCall == [id |-> None, response |-> [transport |-> "ok", text |-> EmptyText],
           before |-> <<>>, kind |-> "return", result |-> None, posts |-> 0]

Unbound == [bound |-> FALSE, ids |-> {}]
NoReturn == [kind |-> "none", ids |-> {}, early |-> FALSE]
NoCrash == [valid |-> {}, inflight |-> None, posted |-> {}]
NoOrigin == [file |-> AbsentFile, cache |-> <<>>]

ValidCached(files) == {id \in DOMAIN files : is_html_valid(files[id])}
Posted(log) == {log[i].id : i \in {j \in 1..Len(log) : log[j].posts > 0}}
Checked(log) == {log[i].id : i \in 1..Len(log)}

(***************************************************************************)
(* One call of get_certificate_details per step, against a server that may *)
(* answer anything.                                                        *)
(***************************************************************************)
FetchCall(certificate_id, response) ==
  LET out == get_certificate_details(certificate_id, cache, response) IN
  /\ cache' = out.files
  /\ call' = [id |-> certificate_id, response |-> response, before |-> cache,
              kind |-> out.kind, result |-> out.result, posts |-> out.posts]
  /\ UNCHANGED <<params, completedFile, pc, locals, ret, remaining, ghosts, parser, htmlContent, applied, mainp, progressFile, pipeline>>

IdleParser ==
  /\ metadataFile = NoCsv
  /\ processedFile = {}
  /\ ppc = "idle"
  /\ processed_ids = {}
  /\ metadata_fields = <<>>
  /\ files_to_process = {}
  /\ htmlDir = {}
  /\ lastWrite = NoWrite
  /\ modifications = [id \in HtmlFiles |-> 0]
  /\ modificationsFile = NoCsv
  /\ applied = NoApplication

IdleProcess ==
  /\ completedFile = AbsentFile
  /\ pc = "idle"
  /\ completed_ids = {}
  /\ consecutive_failures = 0
  /\ seq = 0
  /\ current_batch = <<>>
  /\ valid_ids = Unbound
  /\ ret = NoReturn
  /\ remaining = {}
  /\ call = NoCall
  /\ calls = <<>>
  /\ history = <<>>
  /\ loaded = {}
  /\ origin = NoOrigin
  /\ resumed = FALSE
  /\ atCrash = NoCrash
  /\ mainp = NoMain
  /\ progressFile = None
  /\ pipeline = NoPipeline

FetchInit ==
  /\ server = [id \in ScanIds |-> "missing"]
  /\ region = 1
  /\ year = 2025
  /\ max_seq = 0
  /\ max_failures = 1
  /\ cache = <<>>
  /\ IdleProcess
  /\ IdleParser
  /\ parsed = [id \in HtmlFiles |-> [ok |-> FALSE, info |-> EmptyDict]]
  /\ htmlContent = [id \in HtmlFiles |-> MissingHtml]

FetchNext == \E id \in FetchIds, r \in Responses : FetchCall(id, r)

SpecFetch == FetchInit /\ [][FetchNext]_vars

(***************************************************************************)
(* main.py in --generate-ids mode: process_region_year over one region and *)
(* year, run after run, with kills of the process in between.              *)
(***************************************************************************)
\* the sequence numbers that may have a valid response: the first two, the last
\* of the first batch and the last one
ValidSeqs == {1, 2, batch_size, MaxSeq}

\* the values of --max-seq: no id, less than a batch, a batch, and more
MaxSeqs == {0, 1, 2, batch_size, MaxSeq - 1, MaxSeq}

SmallSubsets(S) == {V \in SUBSET S : Cardinality(V) <= MaxValid}

PersistedIds(file) == IF file.state = "ok" THEN Range(file.ids) ELSE {}

\* history entry of one check or fetch: was the cache file valid and was the id
\* in the persisted completed set when it was made
LogEntry(cert_id, files, file, posts, result) ==
  [id |-> cert_id, cached |-> cert_id \in ValidCached(files),
   done |-> cert_id \in PersistedIds(file), posts |-> posts, result |-> result]

Init ==
  /\ region \in Regions
  /\ year \in Years
  /\ max_seq \in MaxSeqs
  /\ max_failures \in 1..MaxFailures
  /\ \E V \in SmallSubsets({CertificateId(region, year, s) :
                                s \in {v \in ValidSeqs : v <= max_seq}}) :
       \E g \in [V -> {"valid", "unparsable"}] :
         server = [id \in ScanIds |-> IF id \in V THEN g[id] ELSE "missing"]
  /\ cache = <<>>
  /\ IdleProcess
  /\ IdleParser
  /\ parsed = [id \in HtmlFiles |-> [ok |-> FALSE, info |-> EmptyDict]]
  /\ htmlContent = [id \in HtmlFiles |-> MissingHtml]

\* lines 70-79: load the completed ids, reset the locals
StartScan ==
  /\ pc \in {"idle", "done", "crashed"}
  /\ LET l == load_completed_ids(completedFile) IN
       /\ completed_ids' = l.ids
       /\ completedFile' = l.file
       /\ loaded' = l.ids
  /\ consecutive_failures' = 0
  /\ seq' = 0
  /\ current_batch' = <<>>
  /\ valid_ids' = Unbound
  /\ ret' = NoReturn
  /\ pc' = "loop"
  /\ calls' = <<>>
  /\ history' = <<>>
  /\ IF pc = "crashed"
     THEN UNCHANGED <<origin, resumed, atCrash>>
     ELSE /\ origin' = [file |-> completedFile, cache |-> cache]
          /\ resumed' = FALSE
          /\ atCrash' = NoCrash
  /\ UNCHANGED <<params, cache, remaining, call, parser, htmlContent, applied, mainp, progressFile, pipeline>>

\* lines 81-92: the for loop from seq on, up to the next batch that is processed
\* (full) or to the end of the range
RECURSIVE FillBatch(_, _, _, _, _, _)
FillBatch(r, y, s, batch, completed, limit) ==
  IF s >= limit THEN [seq |-> s, batch |-> batch, full |-> FALSE]
  ELSE LET certificate_id == CertificateId(r, y, s + 1) IN
       IF certificate_id \in completed
       THEN FillBatch(r, y, s + 1, batch, completed, limit)
       ELSE IF Len(batch) + 1 >= batch_size \/ s + 1 = limit
            THEN [seq |-> s + 1, batch |-> Append(batch, certificate_id), full |-> TRUE]
            ELSE FillBatch(r, y, s + 1, Append(batch, certificate_id), completed, limit)

\* lines 95-108: the inner loop over the first n ids of the batch; element
\* k + 1 of the result is the state after k ids
RECURSIVE CheckSteps(_, _, _, _, _)
CheckSteps(batch, n, files, file, srv) ==
  IF n = 0 THEN <<[files |-> files, valid |-> {}, log |-> <<>>]>>
  ELSE LET steps == CheckSteps(batch, n - 1, files, file, srv)
           before == steps[n]
           cert_id == batch[n]
           r == CheckCert(cert_id, before.files, ServerResponse(srv[cert_id]))
       IN Append(steps,
                 [files |-> r.files,
                  valid |-> IF r.valid THEN before.valid \cup {cert_id} ELSE before.valid,
                  log |-> Append(before.log,
                                 LogEntry(cert_id, before.files, file, r.posts, r.result))])

\* an inner loop that takes the ids of the batch from the last to the first
CheckBatchBackwards(batch, files, file, srv) ==
  CheckSteps([i \in 1..Len(batch) |-> batch[Len(batch) + 1 - i]], Len(batch),
             files, file, srv)[Len(batch) + 1]

CheckBatch(batch, files, file, srv) ==
  CheckSteps(batch, Len(batch), files, file, srv)[Len(batch) + 1]

NextBatch == FillBatch(region, year, seq, current_batch, completed_ids, max_seq)

\* lines 81-135: the loop up to and including one processed batch: check or
\* fetch its ids, mark, save, count the failure streak, break or clear
ProcessBatch ==
  /\ pc = "loop"
  /\ LET b == NextBatch
         c == CheckBatch(b.batch, cache, completedFile, server)
         f == FailureStreak(c.valid, b.batch, consecutive_failures, max_failures)
     IN /\ b.full
        /\ seq' = b.seq
        /\ cache' = c.files
        /\ valid_ids' = [bound |-> TRUE, ids |-> c.valid]
        /\ calls' = calls \o c.log
        /\ completed_ids' = completed_ids \cup c.valid
        /\ completedFile' = save_completed_ids(completed_ids \cup c.valid)
        /\ history' = Append(history, Cardinality(c.valid))
        /\ consecutive_failures' = f.failures
        /\ IF f.stop
           THEN /\ pc' = "done"
                /\ ret' = [kind |-> "return", ids |-> c.valid, early |-> TRUE]
                /\ current_batch' = b.batch
           ELSE /\ pc' = "loop"
                /\ current_batch' = <<>>
                /\ UNCHANGED ret
  /\ UNCHANGED <<params, remaining, call, loaded, origin, resumed, atCrash, parser, htmlContent, applied, mainp, progressFile, pipeline>>

\* lines 81-92 and 137: the range ends without another processed batch;
\* return valid_ids, which is unbound when no batch was processed
Return ==
  /\ pc = "loop"
  /\ LET b == NextBatch
     IN /\ ~b.full
        /\ seq' = b.seq
        /\ current_batch' = b.batch
  /\ pc' = "done"
  /\ ret' = IF valid_ids.bound
            THEN [kind |-> "return", ids |-> valid_ids.ids, early |-> FALSE]
            ELSE [kind |-> "raise", ids |-> {}, early |-> FALSE]
  /\ UNCHANGED <<params, cache, completedFile, completed_ids, consecutive_failures,
                 valid_ids, remaining, call, ghosts, parser, htmlContent, applied, mainp, progressFile, pipeline>>

(***************************************************************************)
(* Kills of the process: between two file operations, while a fetch is in  *)
(* flight (the POST is out, the cache file is not, or not fully, written), *)
(* and inside save_completed_ids (the file is truncated by open(.., 'w')). *)
(* k is the number of ids of the batch handled before the kill.  The       *)
(* history keeps, of the ids posted before the kill, those with a watched  *)
(* sequence number.                                                        *)
(***************************************************************************)
Watched == {id \in ScanIds : id[3] \in ValidSeqs \cup {3}}

Killed(files, log, inflight) ==
  /\ pc' = "crashed"
  /\ resumed' = TRUE
  /\ cache' = files
  /\ atCrash' = [valid |-> ValidCached(files),
                 inflight |-> IF inflight \in Watched THEN inflight ELSE None,
                 posted |-> (Posted(calls \o log) \cup {inflight}) \cap Watched]
  /\ UNCHANGED <<params, locals, ret, remaining, call, calls, history, loaded, origin,
                 parser, htmlContent, applied, mainp, progressFile, pipeline>>

CrashBetween ==
  /\ pc = "loop"
  /\ ~resumed
  /\ LET b == NextBatch
         n == IF b.full THEN Len(b.batch) ELSE 0
         steps == CheckSteps(b.batch, n, cache, completedFile, server)
     IN \E k \in 0..n : Killed(steps[k + 1].files, steps[k + 1].log, None)
  /\ UNCHANGED completedFile

CrashInFetch ==
  /\ pc = "loop"
  /\ ~resumed
  /\ LET b == NextBatch
         steps == CheckSteps(b.batch, Len(b.batch), cache, completedFile, server)
     IN /\ b.full
        /\ \E k \in 1..Len(b.batch) :
             LET c == steps[k]
                 cert_id == b.batch[k]
                 text == ServerResponse(server[cert_id]).text
             IN /\ ~html_exists_and_valid(c.files, cert_id).ok
                /\ \E files \in {c.files} \cup
                       (IF is_html_valid(text)
                        THEN {WriteFile(c.files, cert_id, t) : t \in TornWrites(text)}
                        ELSE {}) :
                     Killed(files, c.log, cert_id)
  /\ UNCHANGED completedFile

CrashInSave ==
  /\ pc = "loop"
  /\ ~resumed
  /\ LET b == NextBatch
         c == CheckBatch(b.batch, cache, completedFile, server)
     IN /\ b.full
        /\ Killed(c.files, c.log, None)
  /\ completedFile' = CorruptFile

(***************************************************************************)
(* main.py without --generate-ids: one get_certificate_details per id of   *)
(* certificates.txt, in the order of a Python set.                         *)
(***************************************************************************)
StartText ==
  /\ pc \in {"idle", "done"}
  /\ pc' = "text"
  /\ remaining' = FetchIds
  /\ completed_ids' = {}
  /\ consecutive_failures' = 0
  /\ seq' = 0
  /\ current_batch' = <<>>
  /\ valid_ids' = Unbound
  /\ ret' = NoReturn
  /\ calls' = <<>>
  /\ history' = <<>>
  /\ loaded' = {}
  /\ origin' = NoOrigin
  /\ resumed' = FALSE
  /\ atCrash' = NoCrash
  /\ UNCHANGED <<params, cache, completedFile, call, parser, htmlContent, applied, mainp, progressFile, pipeline>>

TextFetch ==
  /\ pc = "text"
  /\ \E cert_id \in remaining :
       LET out == get_certificate_details(cert_id, cache, ServerResponse(server[cert_id]))
       IN /\ cache' = out.files
          /\ calls' = Append(calls, LogEntry(cert_id, cache, completedFile, out.posts,
                                             out.result))
          /\ remaining' = remaining \ {cert_id}
          /\ pc' = IF remaining = {cert_id} THEN "idle" ELSE "text"
  /\ UNCHANGED <<params, completedFile, locals, ret, call, history, loaded, origin,
                 resumed, atCrash, parser, htmlContent, applied, mainp, progressFile, pipeline>>

Next ==
  \/ StartScan
  \/ ProcessBatch
  \/ Return
  \/ CrashBetween
  \/ CrashInFetch
  \/ CrashInSave
  \/ StartText
  \/ TextFetch

Spec == Init /\ [][Next]_vars

(***************************************************************************)
(* data-scripts/scrape: scraper.py get_certificate_details writes the      *)
(* response before it looks for '//OK', process_certificates fetches the   *)
(* ids of a batch and keeps completed.json and progress.json, and main.py  *)
(* process_region_year marks the ids whose file passes its own test.  The  *)
(* order of json.dump(list(completed_ids)) is not kept: the file is read   *)
(* back as a set.  The CSV writes of process_certificates are those of     *)
(* parse.py above.                                                         *)
(***************************************************************************)
DataMinLen == 100

DataServerKinds == ServerKinds \cup {"no_marker", "short", "http_error"}

DataResponse(kind) ==
  IF kind = "http_error" THEN [transport |-> "http_error", text |-> EmptyText]
  ELSE IF kind = "no_marker"
  THEN [transport |-> "ok",
        text |-> [len |-> 150, marker |-> FALSE, dne |-> FALSE, payload |-> "none"]]
  ELSE IF kind = "short"
  THEN [transport |-> "ok",
        text |-> [len |-> 50, marker |-> TRUE, dne |-> FALSE, payload |-> "truthy"]]
  ELSE ServerResponse(kind)

\* data-scripts scraper.py lines 244-299: the try block
DataFetchBody(certificate_id, files, response) ==
  LET found == html_exists_and_valid(files, certificate_id) IN
  IF ~found.ok
  THEN IF response.transport # "ok"
       THEN [kind |-> "raise", result |-> None, files |-> files, posts |-> 1]
       ELSE LET written == WriteFile(files, certificate_id, response.text) IN
            IF ~response.text.marker
            THEN [kind |-> "return", result |-> None, files |-> written, posts |-> 1]
            ELSE EvalPayload(certificate_id, response.text, written, 1)
  ELSE EvalPayload(certificate_id, found.html, files, 0)

\* data-scripts scraper.py get_certificate_details
data_get_certificate_details(certificate_id, files, response) ==
  CatchAll(DataFetchBody(certificate_id, files, response))

\* data-scripts scraper.py lines 324-340: the ids left after the completed
\* ones and, when the id of progress.json is among them, after that id
RemainingIds(certificate_ids, completed, last_id) ==
  LET remaining_ids == SelectSeq(certificate_ids, LAMBDA c : c \notin completed)
      at == {i \in 1..Len(remaining_ids) : remaining_ids[i] = last_id}
  IN IF at = {} THEN remaining_ids
     ELSE SubSeq(remaining_ids, (CHOOSE i \in at : TRUE) + 1, Len(remaining_ids))

\* lines 395-489: the loop over the first n remaining ids
RECURSIVE ProcessRemaining(_, _, _, _, _, _)
ProcessRemaining(remaining_ids, n, files, completed, progress, srv) ==
  IF n = 0
  THEN [files |-> files, completed |-> completed, progress |-> progress,
        written |-> FALSE, log |-> <<>>]
  ELSE LET before == ProcessRemaining(remaining_ids, n - 1, files, completed, progress, srv)
           cert_id == remaining_ids[n]
           out == data_get_certificate_details(cert_id, before.files,
                                               DataResponse(srv[cert_id]))
           entry == [id |-> cert_id, cached |-> cert_id \in ValidCached(before.files),
                     done |-> cert_id \in before.completed, posts |-> out.posts,
                     result |-> out.result]
       IN IF out.result = None
          THEN [before EXCEPT !.files = out.files, !.log = Append(before.log, entry)]
          ELSE [files |-> out.files, completed |-> before.completed \cup {cert_id},
                progress |-> cert_id, written |-> TRUE,
                log |-> Append(before.log, entry)]

\* data-scripts scraper.py process_certificates: the files afterwards
process_certificates(certificate_ids, files, file, progress, srv) ==
  LET completed == PersistedIds(file)
      remaining_ids == RemainingIds(certificate_ids, completed, progress)
      out == ProcessRemaining(remaining_ids, Len(remaining_ids), files, completed, progress, srv)
  IN [files |-> out.files, progress |-> out.progress, log |-> out.log,
      file |-> IF out.written THEN save_completed_ids(out.completed) ELSE file]

\* data-scripts main.py lines 99-106
DataFileValid(files, cert_id) ==
  /\ cert_id \in DOMAIN files
  /\ ~files[cert_id].dne
  /\ files[cert_id].len > DataMinLen

DataInit ==
  /\ region = 1
  /\ year = 2025
  /\ max_seq \in 1..MaxFetchSeq
  /\ max_failures = 1
  /\ \E g \in [FetchIds -> DataServerKinds] :
       server = [id \in ScanIds |-> IF id \in FetchIds THEN g[id] ELSE "missing"]
  /\ cache = <<>>
  /\ IdleProcess
  /\ IdleParser
  /\ parsed = [id \in HtmlFiles |-> [ok |-> FALSE, info |-> EmptyDict]]
  /\ htmlContent = [id \in HtmlFiles |-> MissingHtml]

\* data-scripts main.py lines 68-80
DataStartScan ==
  /\ pc \in {"idle", "done"}
  /\ LET l == load_completed_ids(completedFile) IN
       /\ completed_ids' = l.ids
       /\ completedFile' = l.file
       /\ loaded' = l.ids
  /\ consecutive_failures' = 0
  /\ seq' = 0
  /\ current_batch' = <<>>
  /\ valid_ids' = Unbound
  /\ ret' = NoReturn
  /\ pc' = "loop"
  /\ calls' = <<>>
  /\ history' = <<>>
  /\ UNCHANGED <<params, cache, remaining, call, origin, resumed, atCrash, parser,
                 htmlContent, applied, mainp, progressFile, pipeline>>

\* lines 82-139: the loop up to and including one processed batch
DataProcessBatch ==
  /\ pc = "loop"
  /\ LET b == NextBatch
         p == process_certificates(b.batch, cache, completedFile, progressFile, server)
         valid == {cert_id \in Range(b.batch) : DataFileValid(p.files, cert_id)}
         f == FailureStreak(valid, b.batch, consecutive_failures, max_failures)
     IN /\ b.full
        /\ seq' = b.seq
        /\ cache' = p.files
        /\ progressFile' = p.progress
        /\ valid_ids' = [bound |-> TRUE, ids |-> valid]
        /\ calls' = calls \o p.log
        /\ completed_ids' = completed_ids \cup valid
        /\ completedFile' = save_completed_ids(completed_ids \cup valid)
        /\ history' = Append(history, Cardinality(valid))
        /\ consecutive_failures' = f.failures
        /\ pc' = IF f.stop THEN "done" ELSE "loop"
        /\ current_batch' = IF f.stop THEN b.batch ELSE <<>>
        /\ ret' = IF f.stop THEN [kind |-> "return", ids |-> {}, early |-> TRUE] ELSE ret
  /\ UNCHANGED <<params, remaining, call, loaded, origin, resumed, atCrash, parser,
                 htmlContent, applied, mainp, pipeline>>

\* lines 82-91 and 141: the range ends without another processed batch
DataReturn ==
  /\ pc = "loop"
  /\ LET b == NextBatch
     IN /\ ~b.full
        /\ seq' = b.seq
        /\ current_batch' = b.batch
  /\ pc' = "done"
  /\ ret' = [kind |-> "return", ids |-> {}, early |-> FALSE]
  /\ UNCHANGED <<params, cache, completedFile, completed_ids, consecutive_failures,
                 valid_ids, remaining, call, ghosts, parser, htmlContent, applied, mainp,
                 progressFile, pipeline>>

DataNext ==
  \/ DataStartScan
  \/ DataProcessBatch
  \/ DataReturn

SpecData == DataInit /\ [][DataNext]_vars

(***************************************************************************)
(* parse.py: process_all_certificates run after run, one file of raw/html  *)
(* per step, while the scraper adds files between the runs.                *)
(***************************************************************************)
\* a file that parses to the outcome
ContentOf(outcome) ==
  IF outcome.ok
  THEN [exists |-> TRUE, merged |-> outcome.info,
        text |-> [len |-> 150, marker |-> TRUE, dne |-> FALSE, payload |-> "truthy"]]
  ELSE [exists |-> TRUE, merged |-> EmptyDict,
        text |-> [len |-> 150, marker |-> FALSE, dne |-> TRUE, payload |-> "none"]]

CsvInit ==
  /\ server = [id \in ScanIds |-> "missing"]
  /\ region = 1
  /\ year = 2025
  /\ max_seq = 0
  /\ max_failures = 1
  /\ cache = <<>>
  /\ IdleProcess
  /\ IdleParser
  /\ parsed \in [HtmlFiles -> ParseOutcomes]
  /\ htmlContent = [id \in HtmlFiles |-> ContentOf(parsed[id])]

scanning == <<params, cache, completedFile, pc, locals, ret, remaining, call, ghosts,
              applied, mainp, progressFile, modifications, pipeline>>

\* scraper.py lines 137-138 write a file the parser has not seen yet
NewHtmlFile ==
  /\ ppc \in {"idle", "done"}
  /\ \E id \in HtmlFiles \ htmlDir : htmlDir' = htmlDir \cup {id}
  /\ UNCHANGED <<scanning, modificationsFile, htmlContent, metadataFile, processedFile, ppc, processed_ids,
                 metadata_fields, files_to_process, parsed, lastWrite>>

\* CBFCParser.__init__ and process_all_certificates, lines 308-336
StartParse ==
  /\ ppc \in {"idle", "done", "failed", "killed"}
  /\ htmlDir # {}
  /\ ppc' = "run"
  /\ processed_ids' = processedFile \cup get_already_processed_ids(metadataFile)
  /\ metadata_fields' = ReadHeader(metadataFile)
  /\ files_to_process' = htmlDir \ (processedFile \cup get_already_processed_ids(metadataFile))
  /\ lastWrite' = NoWrite
  /\ UNCHANGED <<scanning, modificationsFile, htmlContent, metadataFile, processedFile, htmlDir, parsed>>

\* lines 343-349: a file without a result
SkipFile ==
  /\ ppc = "run"
  /\ \E certificate_id \in files_to_process :
       /\ ~parsed[certificate_id].ok
       /\ files_to_process' = files_to_process \ {certificate_id}
  /\ UNCHANGED <<scanning, modificationsFile, htmlContent, metadataFile, processedFile, ppc, processed_ids,
                 metadata_fields, htmlDir, parsed, lastWrite>>

\* parse.py lines 325-328 without the four text columns of a cut
ModificationHeader == <<"id", "certificate_id", "film_name", "cut_no">>

\* lines 404-425: the first n rows of the modifications of a record
AppendModifications(file, certificate_id, result, n) ==
  IF n = 0 THEN file
  ELSE [exists |-> TRUE, header |-> ModificationHeader,
        rows |-> (IF file.exists THEN file.rows ELSE <<>>)
                   \o [k \in 1..n |-> <<certificate_id, Get(result, "certificate_id"),
                                         Get(result, "title"), ToString(k)>>]]

\* lines 360-371 and 403-430 around the write of one record
WriteRecord(certificate_id, widen) ==
  LET result == [k \in DOMAIN parsed[certificate_id].info \cup {"id"} |->
                    IF k = "id" THEN certificate_id ELSE parsed[certificate_id].info[k]]
      new_fields == NewFields(result, metadata_fields)
      fields == metadata_fields \o new_fields
      filled == FillFields(result, fields)
      out == IF widen THEN RewriteCsv(metadataFile, fields, new_fields, filled)
             ELSE AppendCsv(metadataFile, fields, filled)
  IN /\ parsed[certificate_id].ok
     /\ widen <=> (new_fields # <<>> /\ metadataFile.exists)
     /\ metadata_fields' = fields
     /\ metadataFile' = out.file
     /\ lastWrite' = [kind |-> IF widen THEN "widen" ELSE "append", before |-> metadataFile,
                      record |-> result, new_fields |-> new_fields]
     /\ IF out.raised
        THEN /\ ppc' = "failed"
             /\ UNCHANGED <<processed_ids, processedFile, files_to_process,
                            modificationsFile>>
        ELSE /\ ppc' = "run"
             /\ modificationsFile' = AppendModifications(modificationsFile, certificate_id,
                                                         filled, modifications[certificate_id])
             /\ processed_ids' = processed_ids \cup {certificate_id}
             /\ processedFile' = processed_ids \cup {certificate_id}
             /\ files_to_process' = files_to_process \ {certificate_id}
     /\ UNCHANGED <<scanning, htmlContent, htmlDir, parsed>>

\* lines 392-399: no new field, or no file yet
AppendRecord ==
  /\ ppc = "run"
  /\ \E certificate_id \in files_to_process : WriteRecord(certificate_id, FALSE)

\* lines 374-391: new fields and a file to widen
WidenRecord ==
  /\ ppc = "run"
  /\ \E certificate_id \in files_to_process : WriteRecord(certificate_id, TRUE)

\* lines 436-444: the loop is over; sort and deduplicate
FinishParse ==
  /\ ppc = "run"
  /\ files_to_process = {}
  /\ ppc' = "done"
  /\ metadataFile' = sort_and_deduplicate_csv(metadataFile,
                                              <<"film_name_full", "certificate_id">>)
  /\ modificationsFile' = sort_and_deduplicate_csv(modificationsFile,
                               <<"film_name", "certificate_id", "cut_no">>)
  /\ lastWrite' = [NoWrite EXCEPT !.kind = "sort", !.before = metadataFile]
  /\ UNCHANGED <<scanning, htmlContent, processedFile, processed_ids, metadata_fields,
                 files_to_process, htmlDir, parsed>>

CsvNext ==
  \/ NewHtmlFile
  \/ StartParse
  \/ SkipFile
  \/ AppendRecord
  \/ WidenRecord
  \/ FinishParse

SpecCsv == CsvInit /\ [][CsvNext]_vars

(***************************************************************************)
(* The parser with kills of the process inside the rewrite of lines        *)
(* 374-391: before open(metadata_path, 'w'), after it has truncated the    *)
(* file, after the header and k rows have reached the file, or after the   *)
(* last row and before .processed.json is written.                         *)
(***************************************************************************)
EmptyCsv == [exists |-> TRUE, header |-> <<>>, rows |-> <<>>]

KilledRewrites(file, fieldnames, new_fields, result) ==
  LET whole == RewriteCsv(file, fieldnames, new_fields, result).file
  IN {file, EmptyCsv}
       \cup {[whole EXCEPT !.rows = SubSeq(whole.rows, 1, k)] : k \in 0..Len(whole.rows)}

KillInRewrite ==
  /\ ppc = "run"
  /\ \E certificate_id \in files_to_process :
       LET result == [k \in DOMAIN parsed[certificate_id].info \cup {"id"} |->
                         IF k = "id" THEN certificate_id
                         ELSE parsed[certificate_id].info[k]]
           new_fields == NewFields(result, metadata_fields)
           fields == metadata_fields \o new_fields
       IN /\ parsed[certificate_id].ok
          /\ new_fields # <<>>
          /\ metadataFile.exists
          /\ metadata_fields' = fields
          /\ metadataFile' \in KilledRewrites(metadataFile, fields, new_fields,
                                              FillFields(result, fields))
          /\ lastWrite' = [kind |-> "killed", before |-> metadataFile,
                           record |-> result, new_fields |-> new_fields]
  /\ ppc' = "killed"
  /\ UNCHANGED <<scanning, modificationsFile, htmlContent, processedFile, processed_ids, files_to_process, htmlDir, parsed>>

\* a kill after the record is in metadata.csv (line 399) and before
\* .processed.json is written (line 429): j of the modification rows are out
KillBeforeMark ==
  /\ ppc = "run"
  /\ \E certificate_id \in files_to_process :
       LET result == [k \in DOMAIN parsed[certificate_id].info \cup {"id"} |->
                         IF k = "id" THEN certificate_id
                         ELSE parsed[certificate_id].info[k]]
           new_fields == NewFields(result, metadata_fields)
           fields == metadata_fields \o new_fields
           filled == FillFields(result, fields)
           out == IF new_fields # <<>> /\ metadataFile.exists
                  THEN RewriteCsv(metadataFile, fields, new_fields, filled)
                  ELSE AppendCsv(metadataFile, fields, filled)
       IN /\ parsed[certificate_id].ok
          /\ ~out.raised
          /\ metadata_fields' = fields
          /\ metadataFile' = out.file
          /\ lastWrite' = [kind |-> "killed", before |-> metadataFile,
                           record |-> result, new_fields |-> new_fields]
          /\ \E j \in 0..modifications[certificate_id] :
                modificationsFile' = AppendModifications(modificationsFile, certificate_id,
                                                        filled, j)
  /\ ppc' = "killed"
  /\ UNCHANGED <<scanning, htmlContent, processedFile, processed_ids, files_to_process,
                 htmlDir, parsed>>

\* the modification rows of the pages of ids, together
RECURSIVE TotalCuts(_, _)
TotalCuts(m, ids) ==
  IF ids = {} THEN 0
  ELSE LET id == CHOOSE x \in ids : TRUE
       IN m[id] + TotalCuts(m, ids \ {id})

ModsOutcomes ==
  {o \in ParseOutcomes :
      o.ok => o.info["certificate_id"] = "x" /\ "credit_producer" \notin DOMAIN o.info}

ModsInit ==
  /\ server = [id \in ScanIds |-> "missing"]
  /\ region = 1
  /\ year = 2025
  /\ max_seq = 0
  /\ max_failures = 1
  /\ cache = <<>>
  /\ IdleProcess
  /\ metadataFile = NoCsv
  /\ processedFile = {}
  /\ ppc = "idle"
  /\ processed_ids = {}
  /\ metadata_fields = <<>>
  /\ files_to_process = {}
  /\ htmlDir = {}
  /\ lastWrite = NoWrite
  /\ modificationsFile = NoCsv
  /\ applied = NoApplication
  /\ parsed \in [HtmlFiles -> ModsOutcomes]
  /\ modifications \in {m \in [HtmlFiles -> 0..MaxCuts] :
                           /\ \A id \in HtmlFiles : ~parsed[id].ok => m[id] = 0
                           /\ TotalCuts(m, HtmlFiles) <= MaxCuts}
  /\ htmlContent = [id \in HtmlFiles |-> ContentOf(parsed[id])]

ModsNext ==
  \/ CsvNext
  \/ KillBeforeMark

SpecMods == ModsInit /\ [][ModsNext]_vars

CsvCrashNext ==
  \/ CsvNext
  \/ KillInRewrite

SpecCsvCrash == CsvInit /\ [][CsvCrashNext]_vars

(***************************************************************************)
(* The parser over files of any content: the scraper saves a file, of      *)
(* which parsed keeps what parse_certificate_details makes, and            *)
(* process_all_certificates runs over the files as above.                  *)
(***************************************************************************)
MaxSaved == 2            \* at most this many files are saved

\* the pages the scraper leaves: valid texts of one length, whose records have certificate_id and title absent, empty
\* or set and film_name absent or set
SavedInfos ==
  {m \in MergedInfos :
      /\ "film_name_full" \notin DOMAIN m
      /\ "film_name" \in DOMAIN m => m["film_name"] # ""}

SavedContents ==
  {h \in HtmlContents :
      /\ h.exists /\ is_html_valid(h.text) /\ h.text.len > ParseMinHtmlLen
      /\ h.merged \in SavedInfos \cup {EmptyDict}}

\* the ids of the pages, in the order the scraper saves them
HtmlFileOrder == <<"10001", "10002", "10003">>

ParseInit ==
  /\ server = [id \in ScanIds |-> "missing"]
  /\ region = 1
  /\ year = 2025
  /\ max_seq = 0
  /\ max_failures = 1
  /\ cache = <<>>
  /\ IdleProcess
  /\ IdleParser
  /\ parsed = [id \in HtmlFiles |-> [ok |-> FALSE, info |-> EmptyDict]]
  /\ htmlContent = [id \in HtmlFiles |-> MissingHtml]

\* scraper.py lines 137-138 write a file; parse.py line 347 will read it
SaveHtml ==
  /\ ppc \in {"idle", "done"}
  /\ Cardinality(htmlDir) < MaxSaved
  /\ \E h \in SavedContents :
       LET id == HtmlFileOrder[Cardinality(htmlDir) + 1]
           result == parse_certificate_details(h) IN
       /\ htmlDir' = htmlDir \cup {id}
       /\ htmlContent' = [htmlContent EXCEPT ![id] = h]
       /\ parsed' = [parsed EXCEPT ![id] = [ok |-> result.ok, info |-> result.info]]
  /\ UNCHANGED <<scanning, modificationsFile, metadataFile, processedFile, ppc, processed_ids,
                 metadata_fields, files_to_process, lastWrite>>

ParseNext ==
  \/ SaveHtml
  \/ StartParse
  \/ SkipFile
  \/ AppendRecord
  \/ WidenRecord
  \/ FinishParse

SpecParse == ParseInit /\ [][ParseNext]_vars

(***************************************************************************)
(* The functions of the parser, each applied once to an input drawn at the *)
(* start.                                                                  *)
(***************************************************************************)
(***************************************************************************)
(* main.py main() with getCookies.py get_tokens.  The site answers each of *)
(* the four token requests with a page, an HTTP error status or a failure  *)
(* of the connection, which raises; get_tokens does not look at the        *)
(* status.  The parser of main is shown on the pages an earlier run left.  *)
(***************************************************************************)
TokenRequests == <<"ribbon", "certificate_page", "connection", "permission">>
TokenAnswers == {"ok", "http_error", "raise"}
TokenServers ==
  {a \in [1..Len(TokenRequests) -> TokenAnswers] :
      Cardinality({i \in DOMAIN a : a[i] # "ok"}) <= 1}
TokenDisks == {"ok", "raise_cookies", "raise_headers"}

\* getCookies.py lines 43-82: the requests made, up to the first that raises
RECURSIVE TokenRequestsSent(_, _)
TokenRequestsSent(answers, n) ==
  IF n > Len(TokenRequests) THEN <<>>
  ELSE IF answers[n] = "raise" THEN <<TokenRequests[n]>>
       ELSE <<TokenRequests[n]>> \o TokenRequestsSent(answers, n + 1)

\* a get_tokens whose except clause reports success
GetTokensHidesFailure(answers, disk) ==
  [returned |-> TRUE, result |-> TRUE, sent |-> TokenRequestsSent(answers, 1),
   cookies |-> \A i \in DOMAIN answers : answers[i] # "raise",
   headers |-> \A i \in DOMAIN answers : answers[i] # "raise"]

\* getCookies.py get_tokens
get_tokens(answers, disk) ==
  LET raised == \E i \in DOMAIN answers : answers[i] = "raise"
      sent == TokenRequestsSent(answers, 1)
  IN IF raised
     THEN [returned |-> TRUE, result |-> FALSE, sent |-> sent,
           cookies |-> FALSE, headers |-> FALSE]
     ELSE IF disk = "raise_cookies"
     THEN [returned |-> TRUE, result |-> FALSE, sent |-> sent,
           cookies |-> FALSE, headers |-> FALSE]
     ELSE IF disk = "raise_headers"
     THEN [returned |-> TRUE, result |-> FALSE, sent |-> sent,
           cookies |-> TRUE, headers |-> FALSE]
     ELSE [returned |-> TRUE, result |-> TRUE, sent |-> sent,
           cookies |-> TRUE, headers |-> TRUE]

\* Python's range(start, stop, step) as a list
RECURSIVE range(_, _, _)
range(start, stop, step) ==
  IF (step > 0 /\ start >= stop) \/ (step < 0 /\ start <= stop) THEN <<>>
  ELSE <<start>> \o range(start + step, stop, step)

\* main.py lines 211-215: the (year, region) pairs of the nested loops, in the
\* order of the calls
RECURSIVE RegionYears(_, _)
RegionYears(years, regions) ==
  IF years = <<>> THEN <<>>
  ELSE [i \in 1..Len(regions) |-> <<years[1], regions[i]>>]
         \o RegionYears(Tail(years), regions)

\* lines 211-212 with --all or neither --region nor --year, lines 216-219 with
\* both
ScanPairs(args) ==
  IF ~args.generate_ids \/ args.region_year = "one" THEN <<>>
  ELSE IF args.region_year = "both" THEN <<<<2025, 1>>>>
  ELSE RegionYears(range(2025, 2024, -1), range(1, 10, 1))

MainScanIds ==
  ScanIds \cup {CertificateId(r, y, s) : r \in 1..9, y \in {2024, 2025},
                                         s \in 1..MaxFetchSeq}

MainArgs ==
  [parse_only : BOOLEAN, skip_parse : BOOLEAN, generate_ids : BOOLEAN,
   region_year : {"none", "one", "both"}, urls : BOOLEAN]

MainInit ==
  /\ region = 1
  /\ year = 2025
  /\ max_seq = 2
  /\ max_failures = 1
  /\ server \in {[id \in MainScanIds |-> IF id \in V THEN "valid" ELSE "missing"] :
                    V \in {{}, {CertificateId(1, 2025, 1)}}}
  /\ cache = <<>>
  /\ IdleProcess
  /\ metadataFile = NoCsv
  /\ processedFile = {}
  /\ ppc = "idle"
  /\ processed_ids = {}
  /\ metadata_fields = <<>>
  /\ files_to_process = {}
  /\ htmlDir = {"10001"}
  /\ lastWrite = NoWrite
  /\ modifications = [id \in HtmlFiles |-> 0]
  /\ modificationsFile = NoCsv
  /\ applied = NoApplication
  /\ \E info \in {m \in SavedInfos : DOMAIN m = {"certificate_id", "title"}} :
        LET h == [exists |-> TRUE, merged |-> info,
                  text |-> [len |-> 150, marker |-> TRUE, dne |-> FALSE,
                            payload |-> "truthy"]]
            result == parse_certificate_details(h)
        IN /\ htmlContent = [id \in HtmlFiles |-> IF id = "10001" THEN h ELSE MissingHtml]
           /\ parsed = [id \in HtmlFiles |->
                          IF id = "10001" THEN [ok |-> result.ok, info |-> result.info]
                          ELSE [ok |-> FALSE, info |-> EmptyDict]]

MainFrame ==
  UNCHANGED <<params, cache, completedFile, pc, locals, ret, remaining, call, ghosts,
              parser, htmlContent, applied, progressFile, pipeline>>

Exit(status) == mainp' = [mainp EXCEPT !.pc = "exited", !.status = status]

\* main.py lines 172-188: the arguments, and what the site and the disk hold
\* for this run
ParseArgs ==
  /\ mainp.pc = "start"
  /\ \E args \in MainArgs, answers \in TokenServers, disk \in TokenDisks :
       mainp' = [mainp EXCEPT !.args = args, !.net = answers, !.disk = disk,
                              !.pairs = ScanPairs(args),
                              !.pc = IF args.parse_only THEN "parse" ELSE "tokens"]
  /\ MainFrame

\* lines 191-194
GetTokens ==
  /\ mainp.pc = "tokens"
  /\ LET tokens == get_tokens(mainp.net, mainp.disk) IN
       mainp' = [mainp EXCEPT !.tokens = tokens,
                              !.pc = IF tokens.result THEN "scraper" ELSE "exited",
                              !.status = IF tokens.result THEN "running" ELSE "1"]
  /\ MainFrame

\* line 197
ConstructScraper ==
  /\ mainp.pc = "scraper"
  /\ mainp' = [mainp EXCEPT !.scraper = TRUE, !.pc = "crawl"]
  /\ MainFrame

\* lines 222-226: one of --region and --year; lines 229-233: no id in
\* certificates.txt
NothingToCrawl ==
  /\ mainp.pc = "crawl"
  /\ IF mainp.args.generate_ids THEN mainp.args.region_year = "one"
                                 ELSE ~mainp.args.urls
  /\ Exit("1")
  /\ MainFrame

\* lines 211-214 and 216-219: the next call of process_region_year, with
\* lines 70-79 of it
MainStartScan ==
  /\ mainp.pc = "crawl"
  /\ mainp.pairs # <<>>
  /\ pc \in {"idle", "done"} /\ ret.kind # "raise"
  /\ year' = mainp.pairs[1][1]
  /\ region' = mainp.pairs[1][2]
  /\ mainp' = [mainp EXCEPT !.pairs = Tail(mainp.pairs),
                            !.called = Append(mainp.called, mainp.pairs[1])]
  /\ LET l == load_completed_ids(completedFile) IN
       /\ completed_ids' = l.ids
       /\ completedFile' = l.file
       /\ loaded' = l.ids
  /\ consecutive_failures' = 0
  /\ seq' = 0
  /\ current_batch' = <<>>
  /\ valid_ids' = Unbound
  /\ ret' = NoReturn
  /\ pc' = "loop"
  /\ calls' = <<>>
  /\ history' = <<>>
  /\ origin' = [file |-> completedFile, cache |-> cache]
  /\ UNCHANGED <<server, max_seq, max_failures, cache, remaining, call, resumed, atCrash,
                 parser, htmlContent, applied, progressFile, pipeline>>

MainProcessBatch == mainp.pc = "crawl" /\ ProcessBatch

MainReturn == mainp.pc = "crawl" /\ Return

MainStartText ==
  /\ mainp.pc = "crawl"
  /\ ~mainp.args.generate_ids /\ mainp.args.urls
  /\ pc = "idle" /\ calls = <<>>
  /\ StartText

MainTextFetch == mainp.pc = "crawl" /\ TextFetch

\* lines 214-220 and 237-248: the crawl is over; an exception of
\* process_region_year ends main
Scraped ==
  /\ mainp.pc = "crawl"
  /\ IF mainp.args.generate_ids
     THEN pc = "done" /\ (mainp.pairs = <<>> \/ ret.kind = "raise")
     ELSE pc = "idle" /\ calls # <<>>
  /\ IF ret.kind = "raise" THEN Exit("1")
     ELSE IF mainp.args.skip_parse THEN Exit("0")
     ELSE mainp' = [mainp EXCEPT !.pc = "parse"]
  /\ MainFrame

\* lines 250-253
MainStartParse ==
  /\ mainp.pc = "parse"
  /\ ppc = "idle"
  /\ StartParse

MainSkipFile == mainp.pc = "parse" /\ SkipFile

MainAppendRecord == mainp.pc = "parse" /\ AppendRecord

MainFinishParse == mainp.pc = "parse" /\ FinishParse

\* lines 254-255
Parsed ==
  /\ mainp.pc = "parse"
  /\ ppc \in {"done", "failed"}
  /\ Exit(IF ppc = "done" THEN "0" ELSE "1")
  /\ MainFrame

MainNext ==
  \/ ParseArgs
  \/ GetTokens
  \/ ConstructScraper
  \/ NothingToCrawl
  \/ MainStartScan
  \/ MainProcessBatch
  \/ MainReturn
  \/ MainStartText
  \/ MainTextFetch
  \/ Scraped
  \/ MainStartParse
  \/ MainSkipFile
  \/ MainAppendRecord
  \/ MainFinishParse
  \/ Parsed

SpecMain == MainInit /\ [][MainNext]_vars

Pending(fn, arg) == [fn |-> fn, arg |-> arg, out |-> <<>>, done |-> FALSE]

PureInit(inputs) ==
  /\ server = [id \in ScanIds |-> "missing"]
  /\ region = 1
  /\ year = 2025
  /\ max_seq = 0
  /\ max_failures = 1
  /\ cache = <<>>
  /\ IdleProcess
  /\ metadataFile = NoCsv
  /\ processedFile = {}
  /\ ppc = "idle"
  /\ processed_ids = {}
  /\ metadata_fields = <<>>
  /\ files_to_process = {}
  /\ htmlDir = {}
  /\ lastWrite = NoWrite
  /\ modifications = [id \in HtmlFiles |-> 0]
  /\ modificationsFile = NoCsv
  /\ parsed = [id \in HtmlFiles |-> [ok |-> FALSE, info |-> EmptyDict]]
  /\ htmlContent = [id \in HtmlFiles |-> MissingHtml]
  /\ applied \in inputs

Apply(fn, out) ==
  /\ applied.fn = fn
  /\ ~applied.done
  /\ applied' = [applied EXCEPT !.out = out, !.done = TRUE]
  /\ UNCHANGED <<params, cache, completedFile, pc, locals, ret, remaining, call, ghosts,
                 parser, htmlContent, mainp, progressFile, pipeline>>

ApplyParse ==
  Apply("parse_certificate_details", parse_certificate_details(applied.arg))

ParseFnInit == PureInit({Pending("parse_certificate_details", h) : h \in HtmlContents})

SpecParseFn == ParseFnInit /\ [][ApplyParse]_vars

\* parse.py line 345 on the name scraper.py line 136 gives the file of an id
ApplyFilename ==
  Apply("_unsanitize_filename",
        _unsanitize_filename(_sanitize_filename(applied.arg) \o HtmlSuffix))

FilenameInit == PureInit({Pending("_unsanitize_filename", x) : x \in CertificateIds})

SpecFilename == FilenameInit /\ [][ApplyFilename]_vars

\* scraper.py line 87, parse.py line 345: the name of the file of an id
ApplySanitize ==
  Apply("_sanitize_filename", _sanitize_filename(applied.arg))

SanitizeInit == PureInit({Pending("_sanitize_filename", x) : x \in CertificateIds})

SpecSanitize == SanitizeInit /\ [][ApplySanitize]_vars

(***************************************************************************)
(* scripts/main.py runs scripts/categories/main.py, certificates/main.py,  *)
(* analysis, imdb, llm and join one after the other, each as a subprocess  *)
(* it waits for; scripts/categories/main.py runs fetch.py, parse.py,       *)
(* categories.py and extract.py the same way.  subprocess.run(check=True)  *)
(* raises CalledProcessError when the exit status of the child is not 0.   *)
(***************************************************************************)
Steps == <<"categories", "certificates", "analysis", "imdb", "llm", "join">>
SubScripts == <<"fetch.py", "parse.py", "categories.py", "extract.py">>
ScriptOutcomes == {"missing", "fail", "ok"}

PipelineFrame ==
  UNCHANGED <<params, cache, completedFile, pc, locals, ret, remaining, call, ghosts,
              parser, htmlContent, applied, mainp, progressFile>>

\* scripts/main.py lines 55-69
PipelineParseArgs ==
  /\ pipeline.pc = "start"
  /\ \E skip \in SUBSET Range(Steps) :
       pipeline' = [pipeline EXCEPT !.skip = skip, !.pc = "categories"]
  /\ PipelineFrame

\* scripts/main.py run_script, lines 38-51: True when the child exits with 0
run_script(status) == status = 0

\* scripts/main.py lines 72-81: the child is started without arguments
StartCategories ==
  /\ pipeline.pc = "categories"
  /\ \E exists \in BOOLEAN :
       pipeline' =
         IF "categories" \in pipeline.skip
         THEN [pipeline EXCEPT !.pc = "certificates"]
         ELSE IF ~exists
         THEN [pipeline EXCEPT !.pc = "returned", !.result = FALSE]
         ELSE [pipeline EXCEPT !.pc = "in_categories",
                               !.started = Append(@, "categories"),
                               !.sub = [NoCategories EXCEPT !.pc = "start"]]
  /\ PipelineFrame

\* scripts/categories/main.py lines 11-20 and 82-94: logging opens
\* pipeline.log when the module is loaded, an error there is not caught and
\* ends the process with status 1
CategoriesStartup ==
  /\ pipeline.pc = "in_categories"
  /\ pipeline.sub.pc = "start"
  /\ \E crash \in BOOLEAN :
       pipeline' =
         IF crash
         THEN [pipeline EXCEPT !.sub.pc = "exited", !.sub.status = 1]
         ELSE [pipeline EXCEPT !.sub.pc = IF pipeline.sub.skip_fetch THEN "parse.py"
                                          ELSE "fetch.py"]
  /\ PipelineFrame

\* scripts/categories/main.py lines 37-58 and one of 106-109, 112-115,
\* 118-121, 124-135: the script is run; when run_script returns False main
\* returns, and the process ends as one that reached the end of main, with
\* status 0
CategoriesStep(i) ==
  /\ pipeline.pc = "in_categories"
  /\ pipeline.sub.pc = SubScripts[i]
  /\ \E ok \in BOOLEAN :
       pipeline' =
         IF ~ok
         THEN [pipeline EXCEPT !.sub.ran = Append(@, SubScripts[i]),
                               !.sub.failed = SubScripts[i],
                               !.sub.pc = "exited", !.sub.status = 0]
         ELSE IF i < Len(SubScripts)
         THEN [pipeline EXCEPT !.sub.ran = Append(@, SubScripts[i]),
                               !.sub.pc = SubScripts[i + 1]]
         ELSE [pipeline EXCEPT !.sub.ran = Append(@, SubScripts[i]),
                               !.sub.saved_date = TRUE,
                               !.sub.pc = "exited", !.sub.status = 0]
  /\ PipelineFrame

CategoriesFetch == CategoriesStep(1)
CategoriesParse == CategoriesStep(2)
CategoriesCategories == CategoriesStep(3)
CategoriesExtract == CategoriesStep(4)

\* scripts/main.py lines 81-83
CategoriesReturned ==
  /\ pipeline.pc = "in_categories"
  /\ pipeline.sub.pc = "exited"
  /\ pipeline' =
       IF run_script(pipeline.sub.status)
       THEN [pipeline EXCEPT !.pc = "certificates"]
       ELSE [pipeline EXCEPT !.pc = "returned", !.result = FALSE]
  /\ PipelineFrame

\* scripts/main.py lines 88-101, 104-121, 124-137, 140-153, 156-172: step i
\* of the pipeline, after which main goes on, or returns
LaterStep(i) ==
  /\ pipeline.pc = Steps[i]
  /\ \E outcome \in ScriptOutcomes :
       LET next == IF i < Len(Steps)
                   THEN [pipeline EXCEPT !.pc = Steps[i + 1]]
                   ELSE [pipeline EXCEPT !.pc = "returned", !.result = TRUE]
       IN pipeline' =
            IF Steps[i] \in pipeline.skip THEN next
            ELSE IF outcome = "missing"
            THEN [pipeline EXCEPT !.pc = "returned", !.result = FALSE]
            ELSE IF outcome = "fail"
            THEN [pipeline EXCEPT !.pc = "returned", !.result = FALSE,
                                  !.started = Append(@, Steps[i])]
            ELSE [next EXCEPT !.started = Append(@, Steps[i])]
  /\ PipelineFrame

RunCertificates == LaterStep(2)
RunAnalysis == LaterStep(3)
RunImdb == LaterStep(4)
RunLlm == LaterStep(5)
RunJoin == LaterStep(6)

\* scripts/main.py lines 174-176
PipelineExit ==
  /\ pipeline.pc = "returned"
  /\ pipeline' = [pipeline EXCEPT !.pc = "exited",
                                  !.status = IF pipeline.result THEN 0 ELSE 1]
  /\ PipelineFrame

PipelineInit == PureInit({NoApplication})

PipelineNext ==
  \/ PipelineParseArgs
  \/ StartCategories
  \/ CategoriesStartup
  \/ CategoriesFetch
  \/ CategoriesParse
  \/ CategoriesCategories
  \/ CategoriesExtract
  \/ CategoriesReturned
  \/ RunCertificates
  \/ RunAnalysis
  \/ RunImdb
  \/ RunLlm
  \/ RunJoin
  \/ PipelineExit

SpecPipeline == PipelineInit /\ [][PipelineNext]_vars

ApplyModifications ==
  Apply("parse_modifications_table", parse_modifications_table(applied.arg))

TableInit == PureInit({Pending("parse_modifications_table", f) : f \in Fragments})

SpecTable == TableInit /\ [][ApplyModifications]_vars

ApplyExtract ==
  Apply("extract_main_data", extract_main_data(applied.arg))

ExtractInit ==
  PureInit({Pending("extract_main_data", a) : a \in MainArrays \cup {NoMainArray}})

SpecExtract == ExtractInit /\ [][ApplyExtract]_vars

(***************************************************************************)
(* process_region_year as a function: the files an uninterrupted call      *)
(* leaves behind when it starts from the files o.                          *)
(***************************************************************************)
RECURSIVE ScanLoop(_, _, _, _, _, _)
ScanLoop(s, batch, completed, failures, files, file) ==
  LET b == FillBatch(region, year, s, batch, completed, max_seq) IN
  IF ~b.full THEN [file |-> file, cache |-> files]
  ELSE LET c == CheckBatch(b.batch, files, file, server)
           f == FailureStreak(c.valid, b.batch, failures, max_failures)
           saved == save_completed_ids(completed \cup c.valid)
       IN IF f.stop THEN [file |-> saved, cache |-> c.files]
          ELSE ScanLoop(b.seq, <<>>, completed \cup c.valid, f.failures, c.files, saved)

UninterruptedScan(o) ==
  LET l == load_completed_ids(o.file)
  IN ScanLoop(0, <<>>, l.ids, 0, o.cache, l.file)

NoDuplicates(q) == \A i, j \in 1..Len(q) : q[i] = q[j] => i = j

Rerun == resumed /\ pc \in {"loop", "done"}

(***************************************************************************)
(* Properties of get_certificate_details (SpecFetch).                      *)
(***************************************************************************)
Called == call.id # None
HadCache == html_exists_and_valid(call.before, call.id).ok
GotValid == call.response.transport = "ok" /\ is_html_valid(call.response.text)

\* C1: a call for an id whose cache file exists and passes the validity check
\* issues no POST, and its result is the one of the cached text, whatever the
\* server would have answered.
C1_CacheHit ==
  (Called /\ HadCache) =>
     /\ call.posts = 0
     /\ cache = call.before
     /\ call.result = IF call.before[call.id].payload = "truthy" THEN call.id ELSE None

C1_Witness ==
  /\ Called /\ HadCache
  /\ call.response.transport = "ok"
  /\ call.response.text.payload # call.before[call.id].payload
  /\ call.result = call.id

\* C4: a call that receives a valid response leaves the response, whole, in the
\* cache file of the id even when evaluating the payload fails; it then returns
\* None, and no answer of the server makes the next call for the id post.
C4_PersistThenParse ==
  (Called /\ ~HadCache /\ GotValid) =>
     /\ call.id \in DOMAIN cache
     /\ cache[call.id] = call.response.text
     /\ call.response.text.payload # "truthy" => call.result = None
     /\ \A r \in Responses : get_certificate_details(call.id, cache, r).posts = 0

C4_Witness ==
  /\ Called /\ ~HadCache /\ GotValid
  /\ call.response.text.payload = "error"
  /\ call.result = None
  /\ cache[call.id] = call.response.text

\* C5: a call whose request raises, whose status is an error or whose response
\* fails the validity check returns None, does not raise, and has posted once.
C5_FailureIsNone ==
  /\ call.kind = "return"
  /\ call.posts <= 1
  /\ (Called /\ ~HadCache /\ ~GotValid) => (call.result = None /\ call.posts = 1)

C5_Witness ==
  /\ Called /\ ~HadCache
  /\ call.response.transport = "exception"
  /\ call.result = None
  /\ call.posts = 1

(***************************************************************************)
(* Properties of the scan (Spec).                                          *)
(***************************************************************************)
\* C2: no check or fetch of a scan or of the certificates.txt loop posts for an
\* id that is in the persisted completed set while its cache file is valid.
C2_NoRefetchOfCompleted ==
  \A i \in 1..Len(calls) :
     (calls[i].posts > 0 /\ calls[i].done) => ~calls[i].cached

C2_Witness ==
  \E i \in 1..Len(calls) : calls[i].done /\ calls[i].cached /\ calls[i].posts = 0

\* every id is always valid (its response passes the check and evaluates) or
\* always invalid
TwoValued == \A id \in ScanIds : server[id] \in {"valid", "missing"}

\* C3: with such a server, after a kill and a re-run over the same range the
\* persisted completed set is the one of an uninterrupted run from the same
\* files, without an id twice.
C3_IdempotentResume ==
  (resumed /\ pc = "done" /\ completedFile.state = "ok" /\ TwoValued) =>
     /\ PersistedIds(completedFile) = PersistedIds(UninterruptedScan(origin).file)
     /\ NoDuplicates(completedFile.ids)

C7_OnlyInflightRepeated ==
  Rerun => \A id \in Posted(calls) \cap atCrash.posted : id = atCrash.inflight

\* C7 as amended: the re-run posts for no id whose valid response was in the
\* cache at the kill; the ids it posts again are the one in flight and those
\* whose answer is not a valid response.
C7_NoRefetchOfPersisted ==
  Rerun =>
     /\ Posted(calls) \cap atCrash.valid = {}
     /\ \A id \in Posted(calls) \cap atCrash.posted :
          id = atCrash.inflight \/ ~is_html_valid(ServerResponse(server[id]).text)

C7_Witness ==
  /\ Rerun
  /\ pc = "done"
  /\ atCrash.valid # {}
  /\ atCrash.inflight # None
  /\ atCrash.inflight \in Posted(calls)
  /\ \E id \in Posted(calls) \cap atCrash.posted : id # atCrash.inflight

\* C8: every id in the completed set, in memory or persisted, and every id of
\* valid_ids has a cache file that passes the validity check; an id whose fetch
\* returned None and left no valid cache file is not in the set.
C8_OnlyValidCompleted ==
  /\ completed_ids \cup PersistedIds(completedFile) \cup valid_ids.ids
       \subseteq ValidCached(cache)
  /\ (pc \in {"loop", "done"}) =>
       \A i \in 1..Len(calls) :
          (calls[i].posts > 0 /\ calls[i].result = None
             /\ calls[i].id \notin ValidCached(cache))
            => calls[i].id \notin completed_ids \cup PersistedIds(completedFile)

C8_Witness ==
  /\ pc = "done"
  /\ PersistedIds(completedFile) # {}
  /\ \E i \in 1..Len(calls) :
        /\ calls[i].posts > 0
        /\ calls[i].result = None
        /\ calls[i].id \notin ValidCached(cache)
  /\ \E i \in 1..Len(calls) :
        /\ calls[i].posts > 0
        /\ calls[i].result = None
        /\ calls[i].id \in ValidCached(cache)
        /\ calls[i].id \notin PersistedIds(completedFile)

\* C9: a call that is not ended by the failure streak has checked every id of
\* 1..max_seq that was not in the completed set when it started.
C9_ScanCoverage ==
  (pc = "done" /\ ~ret.early) =>
     \A s \in 1..max_seq :
        CertificateId(region, year, s) \notin loaded
          => CertificateId(region, year, s) \in Checked(calls)

(***************************************************************************)
(* Properties of the CSV accumulation (SpecCsv).                           *)
(***************************************************************************)
Widened == lastWrite.kind = "widen"

C11_AllOrNothingRewrite ==
  (ppc = "killed") =>
     \/ metadataFile = lastWrite.before
     \/ metadataFile = RewriteCsv(lastWrite.before, metadata_fields, lastWrite.new_fields,
                                  FillFields(lastWrite.record, metadata_fields)).file

(***************************************************************************)
(* Properties of the functions of the parser (SpecParseFn, SpecTable,      *)
(* SpecExtract).                                                           *)
(***************************************************************************)
ParsedFile == applied.fn = "parse_certificate_details" /\ applied.done

\* C12: for a file that is missing, shorter than 100 characters, without the
\* marker '//OK' or with the 'does not exist' message,
\* parse_certificate_details returns None and does not raise.
C12_NoMarkerNoRecord ==
  (ParsedFile /\ (\/ ~applied.arg.exists
                  \/ ~applied.arg.text.marker
                  \/ applied.arg.text.len < ParseMinHtmlLen
                  \/ applied.arg.text.dne)) =>
     /\ applied.out.kind = "return"
     /\ ~applied.out.ok

C12_Witness ==
  /\ ParsedFile
  /\ applied.arg.exists
  /\ ~applied.arg.text.marker
  /\ applied.arg.text.len >= ParseMinHtmlLen
  /\ applied.out = NoRecord

ParsedTable ==
  /\ applied.fn = "parse_modifications_table"
  /\ applied.done
  /\ applied.arg.table
  /\ applied.arg.rows # <<>>

\* C13 as stated: for a table of a header row and n data rows the function
\* returns n records.
C13_RowCount ==
  ParsedTable =>
     /\ applied.out.kind = "return"
     /\ Len(applied.out.mods) = Len(applied.arg.rows) - 1

WellFormedRows ==
  \A i \in 2..Len(applied.arg.rows) :
     applied.arg.rows[i].tds = ModificationCells /\ IsInt(applied.arg.rows[i].first)

\* C13 as amended: when every data row has five cells and a number in the
\* first, the function returns one record per data row, in table order.
C13_RowCountFiveCells ==
  (ParsedTable /\ WellFormedRows) =>
     /\ applied.out.kind = "return"
     /\ Len(applied.out.mods) = Len(applied.arg.rows) - 1
     /\ \A i \in 1..Len(applied.out.mods) :
          applied.out.mods[i].cut_no = IntOf(applied.arg.rows[i + 1].first)

C13_Witness ==
  /\ ParsedTable /\ WellFormedRows
  /\ Len(applied.out.mods) = MaxRows
  /\ applied.out.mods[1].cut_no > applied.out.mods[2].cut_no
  /\ IsInt(applied.arg.rows[1].first)
  /\ applied.arg.rows[1].tds = ModificationCells

Extracted ==
  /\ applied.fn = "extract_main_data"
  /\ applied.done
  /\ applied.arg # NoMainArray

\* the rules in their order, and what each asks of an element
RuleOrder ==
  <<"duration", "category", "language", "format", "applicant", "certifier", "synopsis",
    "title">>

Matches(item, k) ==
  /\ item.str
  /\ CASE k = 1 -> item.mmss
       [] k = 2 -> "category" \in item.words
       [] k = 3 -> "language" \in item.words
       [] k = 4 -> "format" \in item.words
       [] k = 5 -> "parens" \in item.words /\ item.len > ApplicantLen
       [] k = 6 -> "certifier" \in item.words
       [] k = 7 -> item.len > SynopsisLen
       [] OTHER -> item.upper /\ item.len < TitleLen

Earliest(item) ==
  {k \in 1..Len(RuleOrder) : Matches(item, k) /\ \A j \in 1..(k - 1) : ~Matches(item, j)}

AssignedTo(i, fields) == {f \in fields : applied.out.fields[f] = i}

\* C14 as stated: a string element is assigned to no field but the one of the
\* earliest rule it matches, and never to two fields.
C14_RuleShadowing ==
  Extracted =>
     \A i \in {j \in 1..Len(applied.arg) : applied.arg[j].str} :
        /\ \A f \in AssignedTo(i, DOMAIN applied.out.fields) :
              \E k \in Earliest(applied.arg[i]) : f = RuleOrder[k]
        /\ Cardinality(AssignedTo(i, DOMAIN applied.out.fields)) <= 1

\* C14 as amended: of the eight fields of the rules an element is assigned to
\* none but the one of the earliest rule it matches; an element that matches no
\* rule, and one that is no string, is assigned to none of them.
C14_RuleShadowingOfRules ==
  Extracted =>
     \A i \in 1..Len(applied.arg) :
        /\ \A f \in AssignedTo(i, RuleFields) :
              \E k \in Earliest(applied.arg[i]) : f = RuleOrder[k]
        /\ Cardinality(AssignedTo(i, RuleFields)) <= 1
        /\ applied.out.fields["certificate_id"] = Len(applied.arg)
        /\ \A f \in AssignedTo(i, RuleFields) : applied.out.info[f] = applied.arg[i]

C14_Witness ==
  /\ Extracted
  /\ \E i \in 1..Len(applied.arg) :
        /\ Cardinality({k \in 1..Len(RuleOrder) : Matches(applied.arg[i], k)}) >= 3
        /\ AssignedTo(i, RuleFields) = {"category"}
  /\ \E i \in 1..Len(applied.arg) :
        /\ Matches(applied.arg[i], 4) /\ Matches(applied.arg[i], 6)
        /\ AssignedTo(i, RuleFields) = {"format"}
  /\ AssignedTo(Len(applied.arg), DOMAIN applied.out.fields) = {"certificate_id", "title"}

\* the elements long enough to be a synopsis that no earlier rule takes
Candidates == {i \in 1..Len(applied.arg) : Earliest(applied.arg[i]) = {7}}

\* C15 as stated: with more than one such element the synopsis is the longest.
C15_SynopsisLongest ==
  (Extracted /\ Cardinality(Candidates) > 1) =>
     /\ "synopsis" \in DOMAIN applied.out.info
     /\ \A i \in Candidates : applied.arg[i].len <= applied.out.info["synopsis"].len

\* C15 as amended: the synopsis is the last such element of the sub-array.
C15_SynopsisLast ==
  (Extracted /\ Cardinality(Candidates) > 1) =>
     /\ "synopsis" \in DOMAIN applied.out.info
     /\ applied.out.fields["synopsis"] \in Candidates
     /\ \A i \in Candidates : i <= applied.out.fields["synopsis"]
     /\ applied.out.info["synopsis"] = applied.arg[applied.out.fields["synopsis"]]

C15_Witness ==
  /\ Extracted
  /\ Cardinality(Candidates) > 1
  /\ \E i \in Candidates : applied.arg[i].len > applied.out.info["synopsis"].len
  /\ \E i \in 1..Len(applied.arg) :
        i > applied.out.fields["synopsis"] /\ applied.arg[i].len > SynopsisLen

(***************************************************************************)
(* Properties of the parser over files of any content (SpecParse).         *)
(***************************************************************************)
\* the file holds data whose merged record has a certificate_id and one of
\* title, film_name and film_name_full, none of them empty
HasRequired(h) ==
  /\ h.exists /\ h.text.marker /\ ~h.text.dne /\ h.text.len >= ParseMinHtmlLen
  /\ h.text.payload = "truthy"
  /\ "certificate_id" \in DOMAIN h.merged /\ h.merged["certificate_id"] # ""
  /\ \E k \in {"title", "film_name", "film_name_full"} :
        k \in DOMAIN h.merged /\ h.merged[k] # ""

Handled == IF ppc = "run" THEN htmlDir \ files_to_process ELSE {}

UninterruptedAgrees ==
  (pc = "done" /\ ~resumed) =>
     /\ completedFile = UninterruptedScan(origin).file
     /\ cache = UninterruptedScan(origin).cache

Renamed == applied.fn = "_unsanitize_filename" /\ applied.done

\* C17: for every certificate id x of letters, digits, '/', '=' and '+',
\* _unsanitize_filename(_sanitize_filename(x) + '.html') is x.
C17_FilenameRoundTrip == Renamed => applied.out = applied.arg

TokensFailed == mainp.tokens.returned /\ ~mainp.tokens.result

\* C18: get_tokens returns False when a step of its request sequence raises,
\* and makes no request twice or after the one that raised; when it returns
\* False, main exits with status 1 and has not constructed the scraper, posted
\* for a certificate, changed the completed set or run the parser.
C18_TokenFailureAborts ==
  /\ mainp.tokens.returned =>
        LET sent == mainp.tokens.sent IN
        /\ \A i \in 1..Len(sent) : sent[i] = TokenRequests[i]
        /\ \A i \in DOMAIN mainp.net :
              mainp.net[i] = "raise" => ~mainp.tokens.result /\ Len(sent) = i
  /\ TokensFailed =>
        /\ mainp.pc = "exited" /\ mainp.status = "1"
        /\ ~mainp.scraper
        /\ pc = "idle" /\ calls = <<>> /\ call = NoCall /\ cache = <<>>
        /\ completed_ids = {} /\ completedFile = AbsentFile
        /\ ppc = "idle" /\ metadataFile = NoCsv /\ processedFile = {}

C18_Witness ==
  /\ TokensFailed
  /\ mainp.net[3] = "raise"
  /\ mainp.tokens.sent = <<"ribbon", "certificate_page", "connection">>
  /\ mainp.status = "1"

InScan == pc \in {"loop", "done", "crashed"}

\* C19: within one call of process_region_year the ids are checked or fetched
\* in strictly ascending order of their sequence numbers, so none is checked
\* or fetched twice.
C19_AscendingSequence ==
  InScan => \A i, j \in 1..Len(calls) : i < j => calls[i].id[3] < calls[j].id[3]

C19_Witness ==
  /\ pc = "done"
  /\ Len(calls) > batch_size
  /\ \E i \in 1..Len(calls) : calls[i].posts > 0
  /\ \E i \in 1..Len(calls) : calls[i].posts = 0
  /\ \E i \in 1..(Len(calls) - 1) : calls[i + 1].id[3] > calls[i].id[3] + 1

\* C20: a call that gets an invalid response, an HTTP error status or an
\* exception of the request returns None and leaves every file of the cache
\* directory as it was; a call changes the directory only by writing a
\* response that passes is_html_valid to the file of its id.
C20_NoWriteOnFailure ==
  /\ (Called /\ ~HadCache /\ ~GotValid) => call.result = None /\ cache = call.before
  /\ (Called /\ cache # call.before) =>
        /\ GotValid
        /\ cache = WriteFile(call.before, call.id, call.response.text)

C20_Witness ==
  /\ Called /\ ~HadCache /\ ~GotValid
  /\ call.before # <<>>
  /\ call.id \notin DOMAIN call.before
  /\ call.response.transport = "ok"
  /\ call.response.text.len >= MinHtmlLen /\ call.response.text.dne
  /\ call.result = None
  /\ cache = call.before

\* C21: every id in data/raw/completed.json of the data-scripts scan has a
\* cache file that passes the whole validity test, '//OK' included.
C21_OnlyValidCompletedData ==
  \A id \in PersistedIds(completedFile) :
     id \in DOMAIN cache /\ is_html_valid(cache[id])

CrawledAll ==
  /\ mainp.args.generate_ids /\ mainp.args.region_year = "none"
  /\ mainp.pc \in {"parse", "exited"}
  /\ mainp.scraper /\ ret.kind = "return"

\* C22: with --generate-ids and --all, or neither --region nor --year, main
\* calls process_region_year once for every region 1..9 of 2025 and then once
\* for every region 1..9 of 2024.
C22_AllRegionsAndYears ==
  CrawledAll =>
     mainp.called = [i \in 1..18 |-> <<IF i <= 9 THEN 2025 ELSE 2024, ((i - 1) % 9) + 1>>]

Contiguous(batch) == IntDiff(batch[Len(batch)], batch[1]) = Len(batch) - 1

\* C23: a batch without a valid id raises consecutive_failures only when its
\* ids are consecutive sequence numbers, no completed id having been skipped
\* between its first and its last id.
C23_GapLeavesCounter ==
  [][(pc = "loop" /\ consecutive_failures' > consecutive_failures)
        => Contiguous(NextBatch.batch)]_vars

Returned == pc = "done" /\ ret.kind = "return"

\* C24: process_region_year returns the ids found valid during the call, the
\* union of the valid ids of the batches it processed.
C24_ReturnsAllValid == Returned => ret.ids = completed_ids \ loaded

\* C25: process_region_year ends by returning a set, whatever the completed
\* set and max_seq are, also when no batch was processed.
C25_ReturnsNormally == pc = "done" => ret.kind = "return"

\* C26: an id in .completed.json is in every later version of the file, across
\* calls, saves, kills and restarts, also after a load that failed.
C26_CompletedOnlyGrows ==
  [][PersistedIds(completedFile) \subseteq PersistedIds(completedFile')]_vars

CompleteRun == ppc = "done" /\ htmlDir \subseteq processed_ids \cup {id \in HtmlFiles : ~parsed[id].ok}

\* C27: after a complete run, modifications.csv holds every modification row
\* of every certificate that has a row in metadata.csv, also of one whose
\* rows an earlier, killed run had only begun to write.
C27_ModificationsSurvive ==
  CompleteRun =>
     \A id \in get_already_processed_ids(metadataFile) :
        \A k \in 1..modifications[id] :
           /\ modificationsFile.exists
           /\ \E i \in 1..Len(modificationsFile.rows) :
                 /\ modificationsFile.rows[i][1] = id
                 /\ modificationsFile.rows[i][4] = ToString(k)

RowsOf(file, id) == {i \in 1..Len(file.rows) : file.rows[i][1] = id}

\* C28: metadata.csv never holds two rows of one id, in any state of any
\* sequence of runs, the runs killed between the CSV append and the write of
\* .processed.json included.
C28_OneMetadataRow ==
  \A id \in HtmlFiles : Cardinality(RowsOf(metadataFile, id)) <= 1

\* a complete run after a killed one: the certificate has its one row, is not
\* in .processed.json's first writing and has none of its modification rows
C28_Witness ==
  /\ CompleteRun
  /\ \E id \in HtmlFiles :
        /\ Cardinality(RowsOf(metadataFile, id)) = 1
        /\ modifications[id] > 0
        /\ RowsOf(modificationsFile, id) = {}

Sanitized == applied.fn = "_sanitize_filename" /\ applied.done

\* C29: no certificate id of letters, digits, '/', '=' and '+' other than x
\* has the file name _sanitize_filename gives x.
C29_SanitizeInjective ==
  Sanitized =>
     \A y \in CertificateIds : y # applied.arg => _sanitize_filename(y) # applied.out

\* C30: when fetch.py, parse.py, categories.py or extract.py, run by
\* scripts/categories/main.py, has failed, scripts/main.py starts neither the
\* certificates step nor a later one, and its exit status is not 0.
C30_SubScriptFailureStops ==
  pipeline.sub.failed # "none" =>
     /\ \A i \in 1..Len(pipeline.started) : pipeline.started[i] = "categories"
     /\ pipeline.pc = "exited" => pipeline.status # 0

====
